---- MODULE Spec2Model ----
(***************************************************************************)
(* EdenAI text generation service (src/src/services/edenAITextService.ts): *)
(* generateText, chat and generateTextWithRetry.                           *)
(*                                                                         *)
(* Strings are sequences of tokens ("openai/gpt-4o-mini" is                *)
(* <<"openai", "/", "gpt-4o-mini">>), so that includes(), split() and      *)
(* trim() are computed.  An optional JavaScript value is a sequence of     *)
(* length 0 (undefined) or 1 (the value).                                  *)
(***************************************************************************)
EXTENDS Integers, Sequences, FiniteSets, TLC

VARIABLES
    apiKey,      \* EDENAI_API_KEY is configured (module constant, line 6)
    opts,        \* options of the invocation: provider, maxRetries
    pc,          \* position of generateTextWithRetry
    attempt,     \* loop counter of generateTextWithRetry
    delay,       \* backoff delay of generateTextWithRetry, ms
    lastError,   \* lastError of generateTextWithRetry: <<>> is null
    inflight,    \* requests sent and not yet answered
    nPrimary,    \* generateText calls made by the retry loop
    nFallback,   \* generateText calls made to the fallback provider
    nRequests,   \* fetch calls made
    waits,       \* the delays waited, in order
    last,        \* the result of the latest generateText call: <<>> or <<[res, at, fallback]>>
    outcome,     \* what the invocation returned or threw: <<>> while running
    op,          \* single-call specification: the operation called
    resp,        \* single-call specification: the HTTP outcome received
    ret,         \* single-call specification: the result of the call
    input,       \* the argument of the call: prompt, messages or response text
    payload,     \* the body of the request sent: <<>> or <<body>>
    cleaned,     \* parseJSONResponse: the text handed to JSON.parse
    nParse,      \* parseJSONResponse: JSON.parse calls made
    repaired,    \* parseJSONResponse: the repair pass was applied
    calls        \* concurrent invocations of generateTextWithRetry: the locals of each

vars == <<apiKey, opts, pc, attempt, delay, lastError, inflight, nPrimary,
          nFallback, nRequests, waits, last, outcome, op, resp, ret,
          input, payload, cleaned, nParse, repaired, calls>>

parseVars == <<cleaned, nParse, repaired>>

retryVars == <<attempt, delay, lastError, nPrimary, nFallback, waits, last, outcome>>

----------------------------------------------------------------------------
(* Bounds *)

MaxRetriesBound == 3
MaxKeys == 2
MaxMessages == 3
MaxTextLen == 4
NumInvocations == 2
MaxChars == 11
MaxItems == 2
MaxAttemptsBound == 3
MaxOcrKeys == 2

(* Program constants *)

DefaultMaxRetries == 3
BaseDelay == 1000
MinModeratedLength == 10
MaxModeratedLength == 10000
DefaultMaxAttempts == 30
PollDelay == 2000
MinOcrLength == 10
MAX_RETRIES == 2
UploadDelay == 2000

DEFAULT_PROVIDER == <<"openai", "/", "gpt-4o-mini">>
FALLBACK_PROVIDER == <<"google", "/", "gemini-1.5-flash">>

----------------------------------------------------------------------------
(* String helpers *)

\* String.prototype.includes
Includes(s, sub) ==
    \E i \in 1..(Len(s) - Len(sub) + 1) : SubSeq(s, i, i + Len(sub) - 1) = sub

\* s.split('/')[0]
RECURSIVE BeforeSlash(_)
BeforeSlash(s) ==
    IF s = <<>> \/ Head(s) = "/" THEN <<>> ELSE <<Head(s)>> \o BeforeSlash(Tail(s))

IsSpace(c) == c \in {" ", "\n"}

RECURSIVE TrimStart(_)
TrimStart(s) == IF s # <<>> /\ IsSpace(Head(s)) THEN TrimStart(Tail(s)) ELSE s

RECURSIVE TrimEnd(_)
TrimEnd(s) ==
    IF s # <<>> /\ IsSpace(s[Len(s)]) THEN TrimEnd(SubSeq(s, 1, Len(s) - 1)) ELSE s

\* mutant of Trim: nothing is removed
TrimNothing(s) == s

\* String.prototype.trim
Trim(s) == TrimEnd(TrimStart(s))

\* truthiness of an optional string: defined and not ''
TruthyStr(o) == o # <<>> /\ o[1] # <<>>

\* o || ''
OrEmpty(o) == IF TruthyStr(o) THEN o[1] ELSE <<>>

RECURSIVE SumSeq(_)
SumSeq(s) == IF s = <<>> THEN 0 ELSE Head(s) + SumSeq(Tail(s))

----------------------------------------------------------------------------
(* Inputs: provider identifiers, provider responses, HTTP outcomes *)

Texts == {<<>>, <<" ">>, <<"hi">>, <<"yo">>}

OptTexts == {<<>>} \cup {<<t>> : t \in Texts}

\* (status, error) of an entry: none; status 'fail'; status 'fail' with
\* error {message: 'quota exceeded'}; error {} without a message
Faults == {[status |-> <<>>, error |-> <<>>],
           [status |-> <<"fail">>, error |-> <<>>],
           [status |-> <<"fail">>, error |-> <<[message |-> <<<<"quota exceeded">>>>]>>],
           [status |-> <<>>, error |-> <<[message |-> <<>>]>>]}

\* the result object under one key of the response
EntryObjects ==
    {[generated_text |-> g, status |-> f.status, error |-> f.error] :
        g \in OptTexts, f \in Faults}

\* the value under one key: null (<<>>) or a result object
EntryValues == {<<>>} \cup {<<e>> : e \in EntryObjects}

ResponseKeys == {<<"openai", "/", "gpt-4o-mini">>, <<"openai">>, <<"google">>}

KeyValues == [key : ResponseKeys, value : EntryValues]

\* a ProviderResponse: the keys of the JSON body in order, each key once
ResponsesOfLen(n) ==
    {d \in [1..n -> KeyValues] : \A i, j \in 1..n : i # j => d[i].key # d[j].key}

Responses == UNION {ResponsesOfLen(n) : n \in 0..MaxKeys}

HttpStatuses == {"429", "500"}

\* a body that holds text for every requested provider
TextBody ==
    <<[key |-> <<"openai", "/", "gpt-4o-mini">>,
       value |-> <<[generated_text |-> <<<<"hi">>>>, status |-> <<>>, error |-> <<>>]>>]>>

\* what fetch and response.json() can produce; data is what the body holds as JSON
HttpOutcomesOver(datas) ==
    {[kind |-> "reject", status |-> "", body |-> <<>>, data |-> <<>>]}
    \cup {[kind |-> "status", status |-> s, body |-> <<"rate limited">>, data |-> d] :
            s \in HttpStatuses, d \in {<<>>, TextBody}}
    \cup {[kind |-> "json", status |-> "200", body |-> <<>>, data |-> d] : d \in datas}

HttpOutcomes == HttpOutcomesOver(Responses)

\* the outcomes the retry specification draws from: bodies of at most one key
RetryHttpOutcomes == HttpOutcomesOver({d \in Responses : Len(d) <= 1})

----------------------------------------------------------------------------
(* Results of a call *)

Return(t) == [kind |-> "return", text |-> t, cls |-> "", msg |-> <<>>]

Throw(c, m) == [kind |-> "throw", text |-> <<>>, cls |-> c, msg |-> m]

\* data[k]: <<>> when the key is absent or its value is null
Lookup(data, k) ==
    IF \E i \in 1..Len(data) : data[i].key = k
    THEN data[CHOOSE i \in 1..Len(data) : data[i].key = k].value
    ELSE <<>>

\* Object.keys(data).filter(k => data[k]?.generated_text), as positions in key order
AvailableProviders(data) ==
    {i \in 1..Len(data) :
        data[i].value # <<>> /\ TruthyStr(data[i].value[1].generated_text)}

Min(S) == CHOOSE x \in S : \A y \in S : x <= y

\* mutant of ResolveProviderResponse: the base name is never tried
ResolveExactOnly(provider, data) == Lookup(data, provider)

\* lines 89-95 and 191-195: exact key, then the base name
ResolveProviderResponse(provider, data) ==
    IF Lookup(data, provider) = <<>> /\ Includes(provider, <<"/">>)
    THEN Lookup(data, BeforeSlash(provider))
    ELSE Lookup(data, provider)

\* mutant of ExtractText: only the error field, not status 'fail', marks a failure
ExtractTextErrorFieldOnly(provider, data) ==
    LET providerResponse == ResolveProviderResponse(provider, data) IN
    IF providerResponse = <<>>
    THEN IF AvailableProviders(data) # {}
         THEN Return(OrEmpty(data[Min(AvailableProviders(data))].value[1].generated_text))
         ELSE Throw("NoProviderResponseError", <<"No response from provider: ">> \o provider)
    ELSE LET e == providerResponse[1] IN
         IF e.error # <<>>
         THEN Throw("ProviderReportedError",
                    <<"Provider error: ">> \o
                    (IF e.error # <<>> /\ TruthyStr(e.error[1].message)
                     THEN e.error[1].message[1] ELSE <<"Unknown error">>))
         ELSE LET generatedText == OrEmpty(e.generated_text) IN
              IF generatedText = <<>> \/ Len(Trim(generatedText)) = 0
              THEN Throw("EmptyResponseError", <<"Empty response from AI provider">>)
              ELSE Return(generatedText)

\* mutant of ExtractText: the other keys are not scanned
ExtractTextNoScan(provider, data) ==
    LET providerResponse == ResolveProviderResponse(provider, data) IN
    IF providerResponse = <<>>
    THEN Throw("NoProviderResponseError", <<"No response from provider: ">> \o provider)
    ELSE LET e == providerResponse[1] IN
         IF e.status = <<"fail">> \/ e.error # <<>>
         THEN Throw("ProviderReportedError",
                    <<"Provider error: ">> \o
                    (IF e.error # <<>> /\ TruthyStr(e.error[1].message)
                     THEN e.error[1].message[1] ELSE <<"Unknown error">>))
         ELSE LET generatedText == OrEmpty(e.generated_text) IN
              IF generatedText = <<>> \/ Len(Trim(generatedText)) = 0
              THEN Throw("EmptyResponseError", <<"Empty response from AI provider">>)
              ELSE Return(generatedText)

\* lines 87-131 of generateText
ExtractText(provider, data) ==
    LET providerResponse == ResolveProviderResponse(provider, data) IN
    IF providerResponse = <<>>
    THEN IF AvailableProviders(data) # {}
         THEN Return(OrEmpty(data[Min(AvailableProviders(data))].value[1].generated_text))
         ELSE Throw("NoProviderResponseError", <<"No response from provider: ">> \o provider)
    ELSE LET e == providerResponse[1] IN
         IF e.status = <<"fail">> \/ e.error # <<>>
         THEN Throw("ProviderReportedError",
                    <<"Provider error: ">> \o
                    (IF e.error # <<>> /\ TruthyStr(e.error[1].message)
                     THEN e.error[1].message[1] ELSE <<"Unknown error">>))
         ELSE LET generatedText == OrEmpty(e.generated_text) IN
              IF generatedText = <<>> \/ Len(Trim(generatedText)) = 0
              THEN Throw("EmptyResponseError", <<"Empty response from AI provider">>)
              ELSE Return(generatedText)

\* lines 188-206 of chat
ChatExtractText(provider, data) ==
    LET providerResponse == ResolveProviderResponse(provider, data) IN
    IF providerResponse = <<>>
    THEN IF AvailableProviders(data) # {}
         THEN Return(OrEmpty(data[Min(AvailableProviders(data))].value[1].generated_text))
         ELSE Throw("NoProviderResponseError", <<"No response from provider: ">> \o provider)
    ELSE Return(OrEmpty(providerResponse[1].generated_text))

\* mutant of TransportFailure: the body is left out of the message
TransportFailureNoBody(http) == Throw("TransportError", <<"EdenAI API error: ", http.status>>)

\* lines 77-81 and 182-186: the non-OK status
TransportFailure(http) ==
    Throw("TransportError", <<"EdenAI API error: ", http.status, " - ">> \o http.body)

\* lines 61-131 of generateText, from the answer of fetch on
GenerateTextOnResponse(provider, http) ==
    CASE http.kind = "reject" -> Throw("NetworkError", <<"Failed to fetch">>)
      [] http.kind = "status" -> TransportFailure(http)
      [] OTHER -> ExtractText(provider, http.data)

\* lines 166-206 of chat, from the answer of fetch on
ChatOnResponse(provider, http) ==
    CASE http.kind = "reject" -> Throw("NetworkError", <<"Failed to fetch">>)
      [] http.kind = "status" -> TransportFailure(http)
      [] OTHER -> ChatExtractText(provider, http.data)

\* lines 56-59 and 150-152
ConfigFailure == Throw("ConfigError", <<"EdenAI API key is not configured">>)

----------------------------------------------------------------------------
(* Options *)

ProviderIds ==
    {DEFAULT_PROVIDER, <<"openai">>, FALLBACK_PROVIDER, <<"google">>,
     <<"azure", "openai", "/", "gpt-4o">>, <<>>}

\* options.provider: undefined or a string
OptProviders == {<<>>} \cup {<<p>> : p \in ProviderIds}

\* options.maxRetries: undefined or a non-negative integer
OptMaxRetries == {<<>>} \cup {<<n>> : n \in 0..MaxRetriesBound}

\* lines 44-48, 144-148: const { provider = DEFAULT_PROVIDER } = options
ProviderOf(o) == IF o.provider = <<>> THEN DEFAULT_PROVIDER ELSE o.provider[1]

\* mutant of MaxRetriesOf: a maxRetries of 0 is taken as not given
MaxRetriesOrDefault(o) ==
    IF o.maxRetries = <<>> \/ o.maxRetries[1] = 0 THEN DefaultMaxRetries ELSE o.maxRetries[1]

\* line 221: const { maxRetries = 3, ...generateOptions } = options
MaxRetriesOf(o) == IF o.maxRetries = <<>> THEN DefaultMaxRetries ELSE o.maxRetries[1]

\* line 242: generateOptions.provider || DEFAULT_PROVIDER
CurrentProvider(o) == IF TruthyStr(o.provider) THEN o.provider[1] ELSE DEFAULT_PROVIDER

\* mutants of FallbackEligible: the fallback is never, or always, tried
FallbackEligibleNever(o) == FALSE

FallbackEligibleAlways(o) == TRUE

\* line 243: currentProvider.includes('openai')
FallbackEligible(o) == Includes(CurrentProvider(o), <<"openai">>)

\* an error or a text with the call that produced it (the identity of the Error object)
Tagged(r, n) == [res |-> r, at |-> n]

\* line 255: new Error('Failed to generate text after retries')
GenericFailure == Tagged(Throw("GenericError", <<"Failed to generate text after retries">>), 0)

----------------------------------------------------------------------------
(* generateTextWithRetry, lines 212-256 *)

RetryInit ==
    /\ apiKey \in BOOLEAN
    /\ opts \in [provider : OptProviders, maxRetries : OptMaxRetries]
    /\ pc = "loop"
    /\ attempt = 1
    /\ delay = BaseDelay
    /\ lastError = <<>>
    /\ inflight = 0
    /\ nPrimary = 0
    /\ nFallback = 0
    /\ nRequests = 0
    /\ waits = <<>>
    /\ last = <<>>
    /\ outcome = <<>>
    /\ op = "generateTextWithRetry"
    /\ resp = <<>>
    /\ ret = <<>>
    /\ input = <<"prompt">>
    /\ payload = <<>>
    /\ cleaned = <<>>
    /\ nParse = 0
    /\ repaired = FALSE
    /\ calls = <<>>

\* mutant of CatchPrimary: only the first error is recorded
CatchPrimaryKeepFirst(e) ==
    /\ lastError' = (IF lastError = <<>> THEN <<e>> ELSE lastError)
    /\ IF attempt < MaxRetriesOf(opts)
       THEN pc' = "wait" /\ UNCHANGED attempt
       ELSE pc' = "loop" /\ attempt' = attempt + 1
    /\ UNCHANGED <<delay, waits, outcome>>

\* mutant of CatchPrimary: a failure leaves the loop at once
CatchPrimaryBreak(e) ==
    /\ lastError' = <<e>>
    /\ pc' = "loop"
    /\ attempt' = MaxRetriesOf(opts) + 1
    /\ UNCHANGED <<delay, waits, outcome>>

\* mutant of CatchPrimary: a NoProviderResponseError ends the invocation
CatchPrimaryNoProviderTerminal(e) ==
    /\ lastError' = <<e>>
    /\ IF e.res.cls = "NoProviderResponseError"
       THEN pc' = "done" /\ outcome' = <<e>> /\ UNCHANGED attempt
       ELSE /\ UNCHANGED outcome
            /\ IF attempt < MaxRetriesOf(opts)
               THEN pc' = "wait" /\ UNCHANGED attempt
               ELSE pc' = "loop" /\ attempt' = attempt + 1
    /\ UNCHANGED <<delay, waits>>

\* mutant of CatchPrimary: a wait follows every failure, the last attempt's included
CatchPrimaryAlwaysWait(e) ==
    /\ lastError' = <<e>>
    /\ pc' = "wait"
    /\ UNCHANGED <<attempt, delay, waits, outcome>>

\* mutant of CatchPrimary: the next attempt follows at once, without a wait
CatchPrimarySkipWait(e) ==
    /\ lastError' = <<e>>
    /\ pc' = "loop"
    /\ attempt' = attempt + 1
    /\ UNCHANGED <<delay, waits, outcome>>

\* lines 230-238: the catch block of the loop, and the loop's attempt++ when no wait follows
CatchPrimary(e) ==
    /\ lastError' = <<e>>
    /\ IF attempt < MaxRetriesOf(opts)
       THEN pc' = "wait" /\ UNCHANGED attempt
       ELSE pc' = "loop" /\ attempt' = attempt + 1
    /\ UNCHANGED <<delay, waits, outcome>>

\* mutant of ReturnText: the text is not returned and the loop goes on
ReturnTextDropped(r) ==
    /\ IF attempt < MaxRetriesOf(opts)
       THEN pc' = "wait" /\ UNCHANGED attempt
       ELSE pc' = "loop" /\ attempt' = attempt + 1
    /\ UNCHANGED <<delay, waits, outcome, lastError>>

\* mutant of ReturnText: the text is kept and the loop goes on to its end
ReturnTextAtLoopEnd(r) ==
    /\ outcome' = <<r>>
    /\ IF attempt < MaxRetriesOf(opts)
       THEN pc' = "wait" /\ UNCHANGED attempt
       ELSE pc' = "done" /\ UNCHANGED attempt
    /\ UNCHANGED <<delay, waits, lastError>>

\* line 229: return await generateText(...)
ReturnText(r) ==
    /\ outcome' = <<r>>
    /\ pc' = "done"
    /\ UNCHANGED <<attempt, delay, waits, lastError>>

\* mutant of Rethrow: the error of the latest call, the fallback's included, is thrown
RethrowLatest ==
    /\ outcome' = (IF last' # <<>> THEN <<Tagged(last'[1].res, last'[1].at)>>
                   ELSE <<GenericFailure>>)
    /\ pc' = "done"
    /\ UNCHANGED <<attempt, delay, waits, lastError>>

\* mutant of Rethrow: nothing is thrown and the invocation never settles
RethrowHangs ==
    /\ pc' = "hung"
    /\ UNCHANGED <<attempt, delay, waits, lastError, outcome>>

\* line 255: throw lastError || new Error(...)
Rethrow ==
    /\ outcome' = (IF lastError # <<>> THEN lastError ELSE <<GenericFailure>>)
    /\ pc' = "done"
    /\ UNCHANGED <<attempt, delay, waits, lastError>>

\* mutant of PrimaryCall: the request is sent without the check of the key
PrimaryCallUnchecked ==
    /\ pc = "loop"
    /\ attempt <= MaxRetriesOf(opts)
    /\ nPrimary' = nPrimary + 1
    /\ pc' = "awaitPrimary"
    /\ inflight' = inflight + 1
    /\ nRequests' = nRequests + 1
    /\ UNCHANGED <<attempt, delay, waits, lastError, last, outcome>>
    /\ UNCHANGED <<apiKey, opts, nFallback, op, resp, ret,
                   input, payload, parseVars, calls>>

\* lines 226-229 and 56-75: the loop test holds, generateText is called and either
\* throws for the missing key or sends its request
PrimaryCall ==
    /\ pc = "loop"
    /\ attempt <= MaxRetriesOf(opts)
    /\ nPrimary' = nPrimary + 1
    /\ IF ~apiKey
       THEN /\ last' = <<[res |-> ConfigFailure, at |-> nPrimary + 1, fallback |-> FALSE]>>
            /\ CatchPrimary(Tagged(ConfigFailure, nPrimary + 1))
            /\ UNCHANGED <<inflight, nRequests>>
       ELSE /\ pc' = "awaitPrimary"
            /\ inflight' = inflight + 1
            /\ nRequests' = nRequests + 1
            /\ UNCHANGED <<attempt, delay, waits, lastError, last, outcome>>
    /\ UNCHANGED <<apiKey, opts, nFallback, op, resp, ret,
                   input, payload, parseVars, calls>>

\* lines 77-131 and 229-238: the request of a primary attempt is answered
PrimaryAnswer ==
    /\ pc = "awaitPrimary"
    /\ \E http \in RetryHttpOutcomes :
         LET r == GenerateTextOnResponse(ProviderOf(opts), http) IN
         /\ last' = <<[res |-> r, at |-> nPrimary, fallback |-> FALSE]>>
         /\ IF r.kind = "return"
            THEN ReturnText(Tagged(r, nPrimary))
            ELSE CatchPrimary(Tagged(r, nPrimary))
    /\ inflight' = inflight - 1
    /\ UNCHANGED <<apiKey, opts, nPrimary, nFallback, nRequests, op, resp, ret,
                   input, payload, parseVars, calls>>

\* mutant of BackoffElapsed: the delay is not doubled
BackoffElapsedConstant ==
    /\ pc = "wait"
    /\ waits' = Append(waits, delay)
    /\ delay' = delay
    /\ attempt' = attempt + 1
    /\ pc' = "loop"
    /\ UNCHANGED <<apiKey, opts, lastError, inflight, nPrimary, nFallback, nRequests,
                   last, outcome, op, resp, ret,
                   input, payload, parseVars, calls>>

\* lines 235-236 and the loop's attempt++: the timer fires
BackoffElapsed ==
    /\ pc = "wait"
    /\ waits' = Append(waits, delay)
    /\ delay' = delay * 2
    /\ attempt' = attempt + 1
    /\ pc' = "loop"
    /\ UNCHANGED <<apiKey, opts, lastError, inflight, nPrimary, nFallback, nRequests,
                   last, outcome, op, resp, ret,
                   input, payload, parseVars, calls>>

\* lines 241-255: the loop is left; the fallback is called, or lastError is thrown
LoopExit ==
    /\ pc = "loop"
    /\ attempt > MaxRetriesOf(opts)
    /\ IF FallbackEligible(opts)
       THEN /\ nFallback' = nFallback + 1
            /\ IF ~apiKey
               THEN /\ last' = <<[res |-> ConfigFailure, at |-> nPrimary + nFallback + 1,
                                  fallback |-> TRUE]>>
                    /\ Rethrow
                    /\ UNCHANGED <<inflight, nRequests>>
               ELSE /\ pc' = "awaitFallback"
                    /\ inflight' = inflight + 1
                    /\ nRequests' = nRequests + 1
                    /\ UNCHANGED <<attempt, delay, waits, lastError, last, outcome>>
       ELSE /\ UNCHANGED <<nFallback, inflight, nRequests, last>>
            /\ Rethrow
    /\ UNCHANGED <<apiKey, opts, nPrimary, op, resp, ret,
                   input, payload, parseVars, calls>>

\* lines 246-255: the request of the fallback call is answered
FallbackAnswer ==
    /\ pc = "awaitFallback"
    /\ \E http \in RetryHttpOutcomes :
         LET r == GenerateTextOnResponse(FALLBACK_PROVIDER, http) IN
         /\ last' = <<[res |-> r, at |-> nPrimary + nFallback, fallback |-> TRUE]>>
         /\ IF r.kind = "return"
            THEN ReturnText(Tagged(r, nPrimary + nFallback))
            ELSE Rethrow
    /\ inflight' = inflight - 1
    /\ UNCHANGED <<apiKey, opts, nPrimary, nFallback, nRequests, op, resp, ret,
                   input, payload, parseVars, calls>>

Next == PrimaryCall \/ PrimaryAnswer \/ BackoffElapsed \/ LoopExit \/ FallbackAnswer

Spec == RetryInit /\ [][Next]_vars

\* every request is answered and every timer fires (fetch and setTimeout settle), and
\* the code between two awaits runs on
FairSpec == Spec /\ WF_vars(Next)

----------------------------------------------------------------------------
(* One call of generateText or chat, lines 36-131 and 136-207 *)

Roles == {"system", "user", "assistant"}

NotSystem(m) == m.role # "system"

\* messages.filter(m => m.role !== 'system')
RECURSIVE Turns(_)
Turns(messages) ==
    IF messages = <<>> THEN <<>>
    ELSE (IF NotSystem(Head(messages)) THEN <<Head(messages)>> ELSE <<>>)
         \o Turns(Tail(messages))

\* line 155: messages.find(m => m.role === 'system')?.content || ''
SystemMessage(messages) ==
    IF \E i \in 1..Len(messages) : messages[i].role = "system"
    THEN messages[Min({i \in 1..Len(messages) : messages[i].role = "system"})].content
    ELSE <<>>

\* lines 156-162: filter, slice(0, -1), map
PreviousHistory(messages) ==
    LET turns == Turns(messages) IN
    [i \in 1..(IF Len(turns) = 0 THEN 0 ELSE Len(turns) - 1) |->
        [role |-> turns[i].role, message |-> turns[i].content]]

\* lines 172-179: the body of chat's request (messages is not empty)
ChatPayload(provider, messages) ==
    [providers |-> provider,
     text |-> messages[Len(messages)].content,
     chatbot_global_action |->
        (IF SystemMessage(messages) # <<>> THEN SystemMessage(messages)
         ELSE <<"You are a helpful AI assistant.">>),
     previous_history |-> PreviousHistory(messages)]

\* lines 67-74: the body of generateText's request
GenerateTextPayload(provider, prompt) ==
    [providers |-> provider,
     text |-> prompt,
     chatbot_global_action |->
        <<"You are a helpful AI assistant for resume optimization and career guidance.">>,
     previous_history |-> <<>>]

CallProviders == {<<>>, <<DEFAULT_PROVIDER>>, <<<<"openai">>>>, <<FALLBACK_PROVIDER>>}

CallInit ==
    /\ apiKey \in BOOLEAN
    /\ opts \in [provider : CallProviders, maxRetries : {<<>>}]
    /\ op \in {"generateText", "chat"}
    /\ pc = "call"
    /\ input = (IF op = "chat"
                THEN <<[role |-> "system", content |-> <<"s">>],
                       [role |-> "user", content |-> <<"a">>]>>
                ELSE <<"prompt">>)
    /\ payload = <<>>
    /\ cleaned = <<>>
    /\ nParse = 0
    /\ repaired = FALSE
    /\ calls = <<>>
    /\ resp = <<>>
    /\ ret = <<>>
    /\ inflight = 0
    /\ nRequests = 0
    /\ attempt = 0
    /\ delay = 0
    /\ lastError = <<>>
    /\ nPrimary = 0
    /\ nFallback = 0
    /\ waits = <<>>
    /\ last = <<>>
    /\ outcome = <<>>

\* lines 56-75 and 150-180: the key check, then the request
CallStart ==
    /\ pc = "call"
    /\ IF ~apiKey
       THEN /\ ret' = <<ConfigFailure>>
            /\ pc' = "done"
            /\ UNCHANGED <<inflight, nRequests, payload>>
       ELSE IF op = "chat" /\ input = <<>>
       THEN \* line 174: lastMessage is undefined
            /\ ret' = <<Throw("TypeError", <<"Cannot read properties of undefined">>)>>
            /\ pc' = "done"
            /\ UNCHANGED <<inflight, nRequests, payload>>
       ELSE /\ pc' = "await"
            /\ payload' = <<IF op = "chat"
                            THEN ChatPayload(ProviderOf(opts), input)
                            ELSE GenerateTextPayload(ProviderOf(opts), input)>>
            /\ inflight' = inflight + 1
            /\ nRequests' = nRequests + 1
            /\ UNCHANGED ret
    /\ UNCHANGED <<apiKey, opts, op, resp, input, parseVars, calls>>
    /\ UNCHANGED retryVars

\* lines 77-131 and 182-206: the answer of fetch is handled
CallAnswer ==
    /\ pc = "await"
    /\ \E http \in HttpOutcomes :
         /\ resp' = <<http>>
         /\ ret' = <<IF op = "chat"
                     THEN ChatOnResponse(ProviderOf(opts), http)
                     ELSE GenerateTextOnResponse(ProviderOf(opts), http)>>
    /\ pc' = "done"
    /\ inflight' = inflight - 1
    /\ UNCHANGED <<apiKey, opts, op, nRequests, input, payload, parseVars, calls>>
    /\ UNCHANGED retryVars

CallNext == CallStart \/ CallAnswer

CallSpec == CallInit /\ [][CallNext]_vars

\* the three operations of the service: one call of generateText or chat, or one
\* invocation of generateTextWithRetry
ServiceInit == RetryInit \/ CallInit

ServiceNext == Next \/ CallNext

ServiceSpec == ServiceInit /\ [][ServiceNext]_vars

----------------------------------------------------------------------------
(* chat over every message sequence, lines 136-207 *)

MessageContents == {<<>>, <<"a">>, <<"b">>}

ChatMessages == [role : Roles, content : MessageContents]

MessageSeqs == UNION {[1..n -> ChatMessages] : n \in 0..MaxMessages}

ChatInit ==
    /\ apiKey \in BOOLEAN
    /\ opts = [provider |-> <<>>, maxRetries |-> <<>>]
    /\ op = "chat"
    /\ pc = "call"
    /\ input \in MessageSeqs
    /\ payload = <<>>
    /\ cleaned = <<>>
    /\ nParse = 0
    /\ repaired = FALSE
    /\ calls = <<>>
    /\ resp = <<>>
    /\ ret = <<>>
    /\ inflight = 0
    /\ nRequests = 0
    /\ attempt = 0
    /\ delay = 0
    /\ lastError = <<>>
    /\ nPrimary = 0
    /\ nFallback = 0
    /\ waits = <<>>
    /\ last = <<>>
    /\ outcome = <<>>

\* lines 182-206: the answer of fetch is handled (bodies of at most one key)
ChatAnswer ==
    /\ pc = "await"
    /\ op = "chat"
    /\ \E http \in RetryHttpOutcomes :
         /\ resp' = <<http>>
         /\ ret' = <<ChatOnResponse(ProviderOf(opts), http)>>
    /\ pc' = "done"
    /\ inflight' = inflight - 1
    /\ UNCHANGED <<apiKey, opts, op, nRequests, input, payload, parseVars, calls>>
    /\ UNCHANGED retryVars

ChatNext == CallStart \/ ChatAnswer

ChatSpec == ChatInit /\ [][ChatNext]_vars

----------------------------------------------------------------------------
(* parseJSONResponse, lines 261-300 *)

\* The tokens of a generated text: brackets, comma, the number 1, the member
\* "a":1 of an object, white space, and the code fence with its language tag.
MEMBER == "\"a\":1"

\* the three backquotes of a code fence, as one token
FENCE == "fence"

JsonTokens == {"{", "}", "[", "]", ",", "1", MEMBER, " "}

NoParse == [ok |-> FALSE, val |-> <<>>, rest |-> <<>>]

Parsed(v, r) == [ok |-> TRUE, val |-> v, rest |-> r]

\* JSON.parse on a value: the value in canonical form (no white space, a repeated
\* key once) and the text that follows it
RECURSIVE ParseValue(_), ParseMembers(_), ParseElements(_, _)
ParseValue(s0) ==
    LET s == TrimStart(s0) IN
    IF s = <<>> THEN NoParse
    ELSE IF Head(s) = "1" THEN Parsed(<<"1">>, Tail(s))
    ELSE IF Head(s) = "{"
    THEN LET t == TrimStart(Tail(s)) IN
         IF t # <<>> /\ Head(t) = "}" THEN Parsed(<<"{", "}">>, Tail(t))
         ELSE ParseMembers(t)
    ELSE IF Head(s) = "["
    THEN LET t == TrimStart(Tail(s)) IN
         IF t # <<>> /\ Head(t) = "]" THEN Parsed(<<"[", "]">>, Tail(t))
         ELSE ParseElements(t, <<"[">>)
    ELSE NoParse

ParseMembers(s0) ==
    LET s == TrimStart(s0) IN
    IF s = <<>> \/ Head(s) # MEMBER THEN NoParse
    ELSE LET r == TrimStart(Tail(s)) IN
         IF r = <<>> THEN NoParse
         ELSE IF Head(r) = "}" THEN Parsed(<<"{", MEMBER, "}">>, Tail(r))
         ELSE IF Head(r) = "," THEN ParseMembers(Tail(r))
         ELSE NoParse

ParseElements(s0, acc) ==
    LET v == ParseValue(s0) IN
    IF ~v.ok THEN NoParse
    ELSE LET r == TrimStart(v.rest) IN
         IF r = <<>> THEN NoParse
         ELSE IF Head(r) = "]" THEN Parsed(acc \o v.val \o <<"]">>, Tail(r))
         ELSE IF Head(r) = "," THEN ParseElements(Tail(r), acc \o v.val \o <<",">>)
         ELSE NoParse

\* JSON.parse: one value, white space around it, nothing else
JsonParse(s) ==
    LET v == ParseValue(s) IN
    IF v.ok /\ TrimStart(v.rest) = <<>> THEN Parsed(v.val, <<>>) ELSE NoParse

\* line 269: replace(/```json/gi, '')
RECURSIVE StripJsonFences(_)
StripJsonFences(s) ==
    IF s = <<>> THEN <<>>
    ELSE IF Len(s) >= 2 /\ s[1] = FENCE /\ s[2] \in {"json", "JSON"}
    THEN StripJsonFences(SubSeq(s, 3, Len(s)))
    ELSE <<Head(s)>> \o StripJsonFences(Tail(s))

\* line 270: replace(/```/g, '')
RECURSIVE StripFences(_)
StripFences(s) ==
    IF s = <<>> THEN <<>>
    ELSE IF Head(s) = FENCE THEN StripFences(Tail(s))
    ELSE <<Head(s)>> \o StripFences(Tail(s))

\* lines 268-271
CleanResponse(s) == Trim(StripFences(StripJsonFences(s)))

\* where /(\{[\s\S]*\}|\[[\s\S]*\])/ can start: an opening bracket with its closing
\* bracket somewhere after it
SpanStarts(s) ==
    {i \in 1..Len(s) :
        \/ s[i] = "{" /\ \E j \in (i + 1)..Len(s) : s[j] = "}"
        \/ s[i] = "[" /\ \E j \in (i + 1)..Len(s) : s[j] = "]"}

Max(S) == CHOOSE x \in S : \A y \in S : x >= y

\* lines 274-277: the leftmost start, then greedily to the last closing bracket
LocateSpan(s) ==
    IF SpanStarts(s) = {} THEN s
    ELSE LET i == Min(SpanStarts(s))
             close == IF s[i] = "{" THEN "}" ELSE "]"
         IN  SubSeq(s, i, Max({j \in (i + 1)..Len(s) : s[j] = close}))

\* replace(/,\s*X/g, 'X') for a closing bracket X
RECURSIVE RemoveCommaBefore(_, _)
RemoveCommaBefore(s, close) ==
    IF s = <<>> THEN <<>>
    ELSE IF Head(s) = "," /\ TrimStart(Tail(s)) # <<>> /\ Head(TrimStart(Tail(s))) = close
    THEN <<close>> \o RemoveCommaBefore(Tail(TrimStart(Tail(s))), close)
    ELSE <<Head(s)>> \o RemoveCommaBefore(Tail(s), close)

\* mutant of RepairTrailingCommas: only the comma before '}' is removed
RepairBracesOnly(s) == RemoveCommaBefore(s, "}")

\* lines 291-293
RepairTrailingCommas(s) == RemoveCommaBefore(RemoveCommaBefore(s, "}"), "]")

\* mutant of IsBlank: only the empty string is blank
IsBlankEmptyOnly(s) == s = <<>>

\* line 262: !response || response.trim().length === 0
IsBlank(s) == s = <<>> \/ Len(Trim(s)) = 0

Bodies == UNION {[1..n -> JsonTokens] : n \in 0..MaxTextLen}

\* the text as generated: bare, or between code fences
Fenced(tag, body) == <<FENCE>> \o tag \o <<"\n">> \o body \o <<"\n", FENCE>>

GeneratedTexts ==
    Bodies \cup {Fenced(tag, b) : tag \in {<<>>, <<"json">>, <<"JSON">>}, b \in Bodies}

ParseInit ==
    /\ op = "parseJSONResponse"
    /\ pc = "call"
    /\ input \in GeneratedTexts
    /\ cleaned = <<>>
    /\ nParse = 0
    /\ repaired = FALSE
    /\ calls = <<>>
    /\ ret = <<>>
    /\ apiKey = TRUE
    /\ opts = [provider |-> <<>>, maxRetries |-> <<>>]
    /\ payload = <<>>
    /\ resp = <<>>
    /\ inflight = 0
    /\ nRequests = 0
    /\ attempt = 0
    /\ delay = 0
    /\ lastError = <<>>
    /\ nPrimary = 0
    /\ nFallback = 0
    /\ waits = <<>>
    /\ last = <<>>
    /\ outcome = <<>>

netVars == <<apiKey, opts, op, input, payload, resp, inflight, nRequests, calls>>

\* lines 262-277: the blank check, then the cleaning and the span
ParseStart ==
    /\ pc = "call"
    /\ IF IsBlank(input)
       THEN /\ ret' = <<Throw("EmptyInputError",
                              <<"Empty response from AI - cannot parse JSON">>)>>
            /\ pc' = "done"
            /\ UNCHANGED cleaned
       ELSE /\ cleaned' = LocateSpan(CleanResponse(input))
            /\ pc' = "parse"
            /\ UNCHANGED ret
    /\ UNCHANGED <<nParse, repaired>>
    /\ UNCHANGED netVars
    /\ UNCHANGED retryVars

\* mutant of ParseFirst: the repair pass is applied before the first parse
ParseFirstRepaired ==
    /\ pc = "parse"
    /\ nParse' = nParse + 1
    /\ repaired' = TRUE
    /\ IF JsonParse(RepairTrailingCommas(cleaned)).ok
       THEN /\ ret' = <<Return(JsonParse(RepairTrailingCommas(cleaned)).val)>>
            /\ pc' = "done"
       ELSE /\ pc' = "repair"
            /\ UNCHANGED ret
    /\ UNCHANGED cleaned
    /\ UNCHANGED netVars
    /\ UNCHANGED retryVars

\* lines 282-284: the first JSON.parse
ParseFirst ==
    /\ pc = "parse"
    /\ nParse' = nParse + 1
    /\ IF JsonParse(cleaned).ok
       THEN /\ ret' = <<Return(JsonParse(cleaned).val)>>
            /\ pc' = "done"
       ELSE /\ pc' = "repair"
            /\ UNCHANGED ret
    /\ UNCHANGED <<cleaned, repaired>>
    /\ UNCHANGED netVars
    /\ UNCHANGED retryVars

\* lines 289-298: the repair pass and the second JSON.parse
ParseRepaired ==
    /\ pc = "repair"
    /\ repaired' = TRUE
    /\ nParse' = nParse + 1
    /\ ret' = <<IF JsonParse(RepairTrailingCommas(cleaned)).ok
                THEN Return(JsonParse(RepairTrailingCommas(cleaned)).val)
                ELSE Throw("MalformedJsonError", <<"Invalid JSON response from AI">>)>>
    /\ pc' = "done"
    /\ UNCHANGED cleaned
    /\ UNCHANGED netVars
    /\ UNCHANGED retryVars

ParseNext == ParseStart \/ ParseFirst \/ ParseRepaired

ParseSpec == ParseInit /\ [][ParseNext]_vars

----------------------------------------------------------------------------
(* Concurrent invocations of generateTextWithRetry, lines 212-256: the locals   *)
(* maxRetries, lastError, delay and attempt (lines 221-226) of each invocation  *)

Invocations == 1..NumInvocations

ConcOptions == [provider : {<<>>, <<FALLBACK_PROVIDER>>}, maxRetries : {<<1>>, <<2>>}]

\* a rejected fetch, a 429 and a body with text
ConcHttpOutcomes ==
    {h \in RetryHttpOutcomes :
        \/ h.kind = "reject"
        \/ h.kind = "status" /\ h.status = "429" /\ h.data = <<>>
        \/ h.kind = "json" /\ h.data = TextBody}

\* lines 221-226: the locals at the start of an invocation; nCalls counts its
\* generateText calls and hist keeps the answers it received
Frame(o) ==
    [opts |-> o, pc |-> "loop", attempt |-> 1, delay |-> BaseDelay, lastError |-> <<>>,
     nCalls |-> 0, waits |-> <<>>, outcome |-> <<>>, hist |-> <<>>]

\* lines 230-238: the catch block, and attempt++ when no wait follows
FrameCatch(f, e) ==
    [f EXCEPT !.lastError = <<e>>,
              !.pc = IF f.attempt < MaxRetriesOf(f.opts) THEN "wait" ELSE "loop",
              !.attempt = IF f.attempt < MaxRetriesOf(f.opts) THEN @ ELSE @ + 1]

\* line 229
FrameReturn(f, r) == [f EXCEPT !.outcome = <<r>>, !.pc = "done"]

\* line 255
FrameRethrow(f) ==
    [f EXCEPT !.outcome = IF f.lastError # <<>> THEN f.lastError ELSE <<GenericFailure>>,
              !.pc = "done"]

\* mutant of Backoff: delay is one variable shared by the invocations
BackoffShared(cs, i) ==
    [j \in DOMAIN cs |->
        IF j = i
        THEN [cs[j] EXCEPT !.waits = Append(@, cs[j].delay), !.delay = @ * 2,
                           !.attempt = @ + 1, !.pc = "loop"]
        ELSE [cs[j] EXCEPT !.delay = @ * 2]]

\* lines 235-236 and attempt++: the timer of invocation i fires
Backoff(cs, i) ==
    [cs EXCEPT ![i] = [@ EXCEPT !.waits = Append(@, cs[i].delay), !.delay = @ * 2,
                                !.attempt = @ + 1, !.pc = "loop"]]

ConcInit ==
    /\ op = "concurrent"
    /\ pc = "run"
    /\ apiKey \in BOOLEAN
    /\ calls \in [Invocations -> {Frame(o) : o \in ConcOptions}]
    /\ inflight = 0
    /\ nRequests = 0
    /\ opts = [provider |-> <<>>, maxRetries |-> <<>>]
    /\ attempt = 0
    /\ delay = 0
    /\ lastError = <<>>
    /\ nPrimary = 0
    /\ nFallback = 0
    /\ waits = <<>>
    /\ last = <<>>
    /\ outcome = <<>>
    /\ resp = <<>>
    /\ ret = <<>>
    /\ input = <<"prompt">>
    /\ payload = <<>>
    /\ cleaned = <<>>
    /\ nParse = 0
    /\ repaired = FALSE

concRest == <<apiKey, opts, pc, op, resp, ret, input, payload>>

\* lines 226-229 and 56-75, for invocation i
ConcPrimaryCall(i) ==
    /\ calls[i].pc = "loop"
    /\ calls[i].attempt <= MaxRetriesOf(calls[i].opts)
    /\ LET f == [calls[i] EXCEPT !.nCalls = @ + 1] IN
       IF ~apiKey
       THEN /\ calls' = [calls EXCEPT ![i] = FrameCatch(f, Tagged(ConfigFailure, f.nCalls))]
            /\ UNCHANGED <<inflight, nRequests>>
       ELSE /\ calls' = [calls EXCEPT ![i] = [f EXCEPT !.pc = "awaitPrimary"]]
            /\ inflight' = inflight + 1
            /\ nRequests' = nRequests + 1
    /\ UNCHANGED <<concRest, retryVars, parseVars>>

\* lines 77-131 and 229-238, for invocation i
ConcPrimaryAnswer(i) ==
    /\ calls[i].pc = "awaitPrimary"
    /\ \E http \in ConcHttpOutcomes :
         LET r == GenerateTextOnResponse(ProviderOf(calls[i].opts), http)
             f == [calls[i] EXCEPT !.hist = Append(@, http)]
         IN  calls' = [calls EXCEPT ![i] =
                          IF r.kind = "return"
                          THEN FrameReturn(f, Tagged(r, f.nCalls))
                          ELSE FrameCatch(f, Tagged(r, f.nCalls))]
    /\ inflight' = inflight - 1
    /\ UNCHANGED <<nRequests, concRest, retryVars, parseVars>>

\* lines 235-236, for invocation i
ConcBackoffElapsed(i) ==
    /\ calls[i].pc = "wait"
    /\ calls' = Backoff(calls, i)
    /\ UNCHANGED <<inflight, nRequests, concRest, retryVars, parseVars>>

\* lines 241-255, for invocation i
ConcLoopExit(i) ==
    /\ calls[i].pc = "loop"
    /\ calls[i].attempt > MaxRetriesOf(calls[i].opts)
    /\ IF FallbackEligible(calls[i].opts)
       THEN LET f == [calls[i] EXCEPT !.nCalls = @ + 1] IN
            IF ~apiKey
            THEN /\ calls' = [calls EXCEPT ![i] = FrameRethrow(f)]
                 /\ UNCHANGED <<inflight, nRequests>>
            ELSE /\ calls' = [calls EXCEPT ![i] = [f EXCEPT !.pc = "awaitFallback"]]
                 /\ inflight' = inflight + 1
                 /\ nRequests' = nRequests + 1
       ELSE /\ calls' = [calls EXCEPT ![i] = FrameRethrow(calls[i])]
            /\ UNCHANGED <<inflight, nRequests>>
    /\ UNCHANGED <<concRest, retryVars, parseVars>>

\* lines 246-255, for invocation i
ConcFallbackAnswer(i) ==
    /\ calls[i].pc = "awaitFallback"
    /\ \E http \in ConcHttpOutcomes :
         LET r == GenerateTextOnResponse(FALLBACK_PROVIDER, http)
             f == [calls[i] EXCEPT !.hist = Append(@, http)]
         IN  calls' = [calls EXCEPT ![i] =
                          IF r.kind = "return"
                          THEN FrameReturn(f, Tagged(r, f.nCalls))
                          ELSE FrameRethrow(f)]
    /\ inflight' = inflight - 1
    /\ UNCHANGED <<nRequests, concRest, retryVars, parseVars>>

ConcNext ==
    \E i \in Invocations :
        \/ ConcPrimaryCall(i)
        \/ ConcPrimaryAnswer(i)
        \/ ConcBackoffElapsed(i)
        \/ ConcLoopExit(i)
        \/ ConcFallbackAnswer(i)

ConcSpec == ConcInit /\ [][ConcNext]_vars

----------------------------------------------------------------------------
(* moderateText, src/unnamed/part_001 lines 37-92.  A text is the sequence of    *)
(* its characters; likelihoods and confidence are counted in tenths (5 is 0.5).  *)

RECURSIVE Repeat(_, _)
Repeat(c, n) == IF n <= 0 THEN <<>> ELSE <<c>> \o Repeat(c, n - 1)

\* texts of every length up to MaxChars, bare or with white space around them
ModeratedTexts ==
    {Repeat("x", n) : n \in 0..MaxChars}
    \cup {<<" ">> \o Repeat("x", n) \o <<" ", " ">> : n \in 0..MaxChars}

\* an element of openai.items: null, or an object with optional likelihood and label
ModerationItems ==
    {<<>>} \cup {<<[likelihood |-> l, label |-> b]>> :
                    l \in {<<>>, <<3>>, <<9>>}, b \in {<<>>, <<<<"hate">>>>}}

\* openai.items: absent, a value that is not iterable, or an array
ModerationItemLists ==
    {[kind |-> "absent", list |-> <<>>], [kind |-> "scalar", list |-> <<>>]}
    \cup {[kind |-> "array", list |-> l] :
            l \in UNION {[1..n -> ModerationItems] : n \in 0..MaxItems}}

\* the JSON body: the value under 'openai', absent or an object
ModerationBodies ==
    {[openai |-> <<>>]}
    \cup {[openai |-> <<[nsfw_likelihood |-> n, items |-> i]>>] :
            n \in {<<>>, <<2>>, <<7>>}, i \in ModerationItemLists}

\* what fetch and response.json() can produce
ModerationOutcomes ==
    {[kind |-> "reject", status |-> "", data |-> <<>>],
     [kind |-> "badjson", status |-> "200", data |-> <<>>]}
    \cup {[kind |-> "status", status |-> st, data |-> <<>>] : st \in HttpStatuses}
    \cup {[kind |-> "json", status |-> "200", data |-> <<d>>] : d \in ModerationBodies}

ModerationResult(safe, flagged, conf) ==
    [isSafe |-> safe, flaggedCategories |-> flagged, confidence |-> conf]

\* lines 40, 63, 90
SafeUnchecked == ModerationResult(TRUE, <<>>, 0)

\* line 44
SafeTooShort == ModerationResult(TRUE, <<>>, 10)

\* lines 73-78: the labels of the items with a likelihood above 0.5
RECURSIVE FlaggedCategories(_)
FlaggedCategories(items) ==
    IF items = <<>> THEN <<>>
    ELSE LET item == Head(items) IN
         (IF item # <<>> /\ item[1].likelihood # <<>> /\ item[1].likelihood[1] > 5
          THEN <<IF TruthyStr(item[1].label) THEN item[1].label[1] ELSE <<"unknown">>>>
          ELSE <<>>) \o FlaggedCategories(Tail(items))

\* lines 67-87: the classification of a parsed body
Classify(data) ==
    LET nsfw == IF data.openai # <<>> /\ data.openai[1].nsfw_likelihood # <<>>
                THEN data.openai[1].nsfw_likelihood[1] ELSE 0
        items == IF data.openai = <<>> THEN [kind |-> "absent", list |-> <<>>]
                 ELSE data.openai[1].items
    IN  IF items.kind = "scalar"
        THEN Throw("TypeError", <<"categories is not iterable">>)
        ELSE Return(ModerationResult(nsfw < 5 /\ FlaggedCategories(items.list) = <<>>,
                                     FlaggedCategories(items.list), 10 - nsfw))

\* mutant of Caught: the error is thrown on to the caller
CaughtRethrown(r) == r

\* lines 88-91: the catch block
Caught(r) == IF r.kind = "throw" THEN Return(SafeUnchecked) ELSE r

\* lines 47-91: the try block from the answer of fetch on
ModerateOnResponse(http) ==
    Caught(CASE http.kind = "reject" -> Throw("NetworkError", <<"Failed to fetch">>)
             [] http.kind = "status" -> Return(SafeUnchecked)
             [] http.kind = "badjson" -> Throw("SyntaxError", <<"Unexpected token">>)
             [] OTHER -> Classify(http.data[1]))

ModerationInit ==
    /\ op = "moderateText"
    /\ pc = "call"
    /\ apiKey \in BOOLEAN
    /\ input \in ModeratedTexts
    /\ payload = <<>>
    /\ resp = <<>>
    /\ ret = <<>>
    /\ inflight = 0
    /\ nRequests = 0
    /\ opts = [provider |-> <<>>, maxRetries |-> <<>>]
    /\ attempt = 0
    /\ delay = 0
    /\ lastError = <<>>
    /\ nPrimary = 0
    /\ nFallback = 0
    /\ waits = <<>>
    /\ last = <<>>
    /\ outcome = <<>>
    /\ cleaned = <<>>
    /\ nParse = 0
    /\ repaired = FALSE
    /\ calls = <<>>

\* lines 38-59: the key check, the length check, then the request
ModerationStart ==
    /\ pc = "call"
    /\ IF ~apiKey
       THEN /\ ret' = <<Return(SafeUnchecked)>>
            /\ pc' = "done"
            /\ UNCHANGED <<inflight, nRequests, payload>>
       ELSE IF input = <<>> \/ Len(Trim(input)) < MinModeratedLength
       THEN /\ ret' = <<Return(SafeTooShort)>>
            /\ pc' = "done"
            /\ UNCHANGED <<inflight, nRequests, payload>>
       ELSE /\ pc' = "await"
            /\ payload' = <<[providers |-> <<"openai">>,
                             text |-> SubSeq(input, 1, Min({Len(input), MaxModeratedLength})),
                             language |-> "en"]>>
            /\ inflight' = inflight + 1
            /\ nRequests' = nRequests + 1
            /\ UNCHANGED ret
    /\ UNCHANGED <<apiKey, opts, op, resp, input, parseVars, calls>>
    /\ UNCHANGED retryVars

\* lines 61-91: the answer of fetch is handled
ModerationAnswer ==
    /\ pc = "await"
    /\ \E http \in ModerationOutcomes :
         /\ resp' = <<http>>
         /\ ret' = <<ModerateOnResponse(http)>>
    /\ pc' = "done"
    /\ inflight' = inflight - 1
    /\ UNCHANGED <<apiKey, opts, op, nRequests, input, payload, parseVars, calls>>
    /\ UNCHANGED retryVars

ModerationNext == ModerationStart \/ ModerationAnswer

ModerationSpec == ModerationInit /\ [][ModerationNext]_vars

----------------------------------------------------------------------------
(* spellCheck and processResumeText, src/unnamed/part_001 lines 97-237 *)

\* an element of openai.items: null, or an object with optional text and suggestion
SpellItems ==
    {<<>>} \cup {<<[text |-> t, suggestion |-> g]>> :
                    t \in {<<>>, <<<<"teh">>>>}, g \in {<<>>, <<<<"teh">>>>, <<<<"the">>>>}}

SpellItemLists ==
    {[kind |-> "absent", list |-> <<>>], [kind |-> "scalar", list |-> <<>>]}
    \cup {[kind |-> "array", list |-> l] :
            l \in UNION {[1..n -> SpellItems] : n \in 0..MaxItems}}

\* the JSON body: the value under 'openai', absent or an object; its text is
\* absent, empty or a corrected text
SpellBodies ==
    {[openai |-> <<>>]}
    \cup {[openai |-> <<[text |-> t, items |-> i]>>] :
            t \in {<<>>, <<<<>>>>, <<Repeat("y", MinModeratedLength)>>}, i \in SpellItemLists}

SpellOutcomes ==
    {[kind |-> "reject", status |-> "", data |-> <<>>],
     [kind |-> "badjson", status |-> "200", data |-> <<>>]}
    \cup {[kind |-> "status", status |-> st, data |-> <<>>] : st \in HttpStatuses}
    \cup {[kind |-> "json", status |-> "200", data |-> <<d>>] : d \in SpellBodies}

\* lines 100, 104, 123, 153, 223
SpellUnchanged(text) == [correctedText |-> text, corrections |-> <<>>, hasCorrections |-> FALSE]

\* lines 134-140: map, then filter
RECURSIVE Corrections(_)
Corrections(items) ==
    IF items = <<>> THEN <<>>
    ELSE LET item == Head(items)
             original == IF item = <<>> THEN <<>> ELSE OrEmpty(item[1].text)
             corrected == IF item = <<>> THEN <<>> ELSE OrEmpty(item[1].suggestion)
         IN  (IF original # <<>> /\ corrected # <<>> /\ original # corrected
              THEN <<[original |-> original, corrected |-> corrected]>>
              ELSE <<>>) \o Corrections(Tail(items))

\* lines 161-205, for an original without digits, commas or '$' (the texts drawn
\* hold letters and blanks only): no pattern of lines 163-169 matches the
\* original, the loop of line 178 has nothing to restore
PreserveMetrics(original, corrected) == corrected

\* lines 126-150: the result built from a parsed body
SpellResult(text, data) ==
    LET items == IF data.openai = <<>> THEN [kind |-> "absent", list |-> <<>>]
                 ELSE data.openai[1].items
        correctedText == IF data.openai # <<>> /\ TruthyStr(data.openai[1].text)
                         THEN data.openai[1].text[1] ELSE text
    IN  IF items.kind = "scalar"
        THEN Throw("TypeError", <<"items.map is not a function">>)
        ELSE Return([correctedText |-> PreserveMetrics(text, correctedText),
                     corrections |-> Corrections(items.list),
                     hasCorrections |-> Len(Corrections(items.list)) > 0])

\* lines 107-154: the try block of spellCheck from the answer of fetch on, and its catch
SpellCheckOnResponse(text, http) ==
    LET r == CASE http.kind = "reject" -> Throw("NetworkError", <<"Failed to fetch">>)
               [] http.kind = "status" -> Return(SpellUnchanged(text))
               [] http.kind = "badjson" -> Throw("SyntaxError", <<"Unexpected token">>)
               [] OTHER -> SpellResult(text, http.data[1])
    IN  IF r.kind = "throw" THEN SpellUnchanged(text) ELSE r.text

\* mutant of Rejected: the spell check follows whatever moderation found
RejectedNever(moderation) == FALSE

\* line 219: !moderationResult.isSafe
Rejected(moderation) == ~moderation.isSafe

\* lines 220-225 and 231-236: what processResumeText returns
ProcessResult(processed, moderation, spell, approved) ==
    [processedText |-> processed, moderation |-> moderation, spellCheck |-> spell,
     isApproved |-> approved]

\* payload holds the requests sent, in order; last holds moderationResult
ProcessInit ==
    /\ op = "processResumeText"
    /\ pc = "call"
    /\ apiKey \in BOOLEAN
    /\ input \in ModeratedTexts
    /\ payload = <<>>
    /\ last = <<>>
    /\ resp = <<>>
    /\ ret = <<>>
    /\ inflight = 0
    /\ nRequests = 0
    /\ opts = [provider |-> <<>>, maxRetries |-> <<>>]
    /\ attempt = 0
    /\ delay = 0
    /\ lastError = <<>>
    /\ nPrimary = 0
    /\ nFallback = 0
    /\ waits = <<>>
    /\ outcome = <<>>
    /\ cleaned = <<>>
    /\ nParse = 0
    /\ repaired = FALSE
    /\ calls = <<>>

processRest == <<apiKey, opts, op, input, attempt, delay, lastError, nPrimary, nFallback,
                 waits, outcome, parseVars, calls>>

\* the body of the request of moderateText and spellCheck, lines 48-59 and 108-119
TextRequest(url, text) ==
    [url |-> url, providers |-> <<"openai">>,
     text |-> SubSeq(text, 1, Min({Len(text), MaxModeratedLength})), language |-> "en"]

\* lines 217 and 38-59: moderateText is called
ProcessModerate ==
    /\ pc = "call"
    /\ IF ~apiKey
       THEN /\ last' = <<SafeUnchecked>>
            /\ pc' = "moderated"
            /\ UNCHANGED <<inflight, nRequests, payload>>
       ELSE IF input = <<>> \/ Len(Trim(input)) < MinModeratedLength
       THEN /\ last' = <<SafeTooShort>>
            /\ pc' = "moderated"
            /\ UNCHANGED <<inflight, nRequests, payload>>
       ELSE /\ pc' = "awaitModeration"
            /\ payload' = Append(payload, TextRequest("moderation", input))
            /\ inflight' = inflight + 1
            /\ nRequests' = nRequests + 1
            /\ UNCHANGED last
    /\ UNCHANGED <<resp, ret, processRest>>

\* lines 61-91: the answer to the moderation request
ProcessModerationAnswer ==
    /\ pc = "awaitModeration"
    /\ \E http \in ModerationOutcomes :
         /\ resp' = <<http>>
         /\ last' = <<ModerateOnResponse(http).text>>
    /\ pc' = "moderated"
    /\ inflight' = inflight - 1
    /\ UNCHANGED <<nRequests, payload, ret, processRest>>

\* lines 219-229 and 98-119: the text is rejected, or spellCheck is called
ProcessSpellCheck ==
    /\ pc = "moderated"
    /\ IF Rejected(last[1])
       THEN /\ ret' = <<ProcessResult(input, last[1], SpellUnchanged(input), FALSE)>>
            /\ pc' = "done"
            /\ UNCHANGED <<inflight, nRequests, payload, resp>>
       ELSE IF ~apiKey \/ input = <<>> \/ Len(Trim(input)) < MinModeratedLength
       THEN /\ ret' = <<ProcessResult(input, last[1], SpellUnchanged(input), TRUE)>>
            /\ pc' = "done"
            /\ UNCHANGED <<inflight, nRequests, payload, resp>>
       ELSE /\ pc' = "awaitSpellCheck"
            /\ payload' = Append(payload, TextRequest("spell_check", input))
            /\ inflight' = inflight + 1
            /\ nRequests' = nRequests + 1
            /\ resp' = <<>>
            /\ UNCHANGED ret
    /\ UNCHANGED <<last, processRest>>

\* lines 121-154 and 231-236: the answer to the spell-check request
ProcessSpellCheckAnswer ==
    /\ pc = "awaitSpellCheck"
    /\ \E http \in SpellOutcomes :
         /\ resp' = <<http>>
         /\ ret' = <<ProcessResult(SpellCheckOnResponse(input, http).correctedText, last[1],
                                   SpellCheckOnResponse(input, http), TRUE)>>
    /\ pc' = "done"
    /\ inflight' = inflight - 1
    /\ UNCHANGED <<nRequests, payload, last, processRest>>

ProcessNext ==
    ProcessModerate \/ ProcessModerationAnswer \/ ProcessSpellCheck \/ ProcessSpellCheckAnswer

ProcessSpec == ProcessInit /\ [][ProcessNext]_vars

----------------------------------------------------------------------------
(* pollAsyncOCRResult and extractTextFromOCRResult,                              *)
(* src/src/services/edenResumeParserService.ts lines 148-230                     *)

LongText == Repeat("x", MinOcrLength + 1)

\* ten characters between white space: long enough only before trim()
PaddedText == <<" ">> \o Repeat("x", MinOcrLength) \o <<" ">>

\* three pages, one of them blank, whose texts are long enough only when joined
JoinedPages == <<Repeat("x", 5), <<" ">>, Repeat("x", 4)>>

\* the value under one provider key of an OCR result: null or an object; a failed
\* provider is given text, so that only its status or error keeps the text back
OcrProviders ==
    {<<>>}
    \cup {<<[status |-> st, error |-> e, text |-> <<LongText>>, pages |-> <<>>,
             raw_text |-> <<>>]>> :
            st \in {<<>>, <<"fail">>}, e \in BOOLEAN}
    \cup {<<[status |-> <<>>, error |-> FALSE, text |-> t, pages |-> pg, raw_text |-> r]>> :
            t \in {<<>>, <<PaddedText>>, <<LongText>>},
            pg \in {<<>>, <<JoinedPages>>},
            r \in {<<>>, <<LongText>>}}

OcrKeys == {"mistral", "google"}

\* an OCR result object: its keys in order, each key once
OcrResults ==
    UNION {{d \in [1..n -> [key : OcrKeys, value : OcrProviders]] :
               \A i, j \in 1..n : i # j => d[i].key # d[j].key} :
           n \in 0..Min({MaxOcrKeys, Cardinality(OcrKeys)})}

\* lines 201-204: the page texts that are not blank, joined by two line breaks
RECURSIVE JoinPages(_)
JoinPages(pages) ==
    IF pages = <<>> THEN <<>>
    ELSE IF Len(Trim(Head(pages))) = 0 THEN JoinPages(Tail(pages))
    ELSE IF JoinPages(Tail(pages)) = <<>> THEN Head(pages)
    ELSE Head(pages) \o <<"\n", "\n">> \o JoinPages(Tail(pages))

\* lines 187-216: the text of one provider, <<>> for null
ExtractFromProvider(prov) ==
    IF prov = <<>> THEN <<>>
    ELSE IF prov[1].status = <<"fail">> \/ prov[1].error THEN <<>>
    ELSE IF prov[1].text # <<>> /\ Len(Trim(prov[1].text[1])) > MinOcrLength
    THEN prov[1].text
    ELSE IF prov[1].pages # <<>> /\ Len(JoinPages(prov[1].pages[1])) > MinOcrLength
    THEN <<JoinPages(prov[1].pages[1])>>
    ELSE IF prov[1].raw_text # <<>> /\ Len(Trim(prov[1].raw_text[1])) > MinOcrLength
    THEN prov[1].raw_text
    ELSE <<>>

\* result[k]: <<>> when the key is absent
OcrLookup(result, k) ==
    IF \E i \in 1..Len(result) : result[i].key = k
    THEN result[CHOOSE i \in 1..Len(result) : result[i].key = k].value
    ELSE <<>>

\* lines 218-229: Mistral first, then the other keys in order
ExtractTextFromOCRResult(result) ==
    LET others == {i \in 1..Len(result) :
                      result[i].key # "mistral" /\ ExtractFromProvider(result[i].value) # <<>>}
    IN  IF ExtractFromProvider(OcrLookup(result, "mistral")) # <<>>
        THEN Return(ExtractFromProvider(OcrLookup(result, "mistral"))[1])
        ELSE IF others # {}
        THEN Return(ExtractFromProvider(result[Min(others)].value)[1])
        ELSE Throw("Error", <<"No text extracted from Mistral OCR">>)

\* the body of a poll answer: status, results when the body has them, and the
\* provider keys of the body itself otherwise
PollBodies ==
    {[status |-> st, results |-> <<>>, rest |-> <<>>] : st \in {"processing", "failed"}}
    \cup {[status |-> "finished", results |-> <<r>>, rest |-> <<>>] : r \in OcrResults}
    \cup {[status |-> "finished", results |-> <<>>, rest |-> r] : r \in OcrResults}

PollOutcomes ==
    {[kind |-> "reject", status |-> "", data |-> <<>>],
     [kind |-> "badjson", status |-> "200", data |-> <<>>]}
    \cup {[kind |-> "status", status |-> st, data |-> <<>>] : st \in HttpStatuses}
    \cup {[kind |-> "json", status |-> "200", data |-> <<d>>] : d \in PollBodies}

\* line 148: maxAttempts = 30
MaxAttemptsOf(o) == IF o.maxAttempts = <<>> THEN DefaultMaxAttempts ELSE o.maxAttempts[1]

\* mutant of PollLoopTest: one attempt more
PollLoopTestInclusive(o, a) == a <= MaxAttemptsOf(o)

\* line 151: attempt < maxAttempts
PollLoopTest(o, a) == a < MaxAttemptsOf(o)

\* lines 152-177: the body of the loop from the answer of fetch on: a text is
\* returned, or the loop goes on after a delay; every throw inside the try block,
\* the one of line 170 included, is caught in line 175
PollOnResponse(http) ==
    LET thrown == CASE http.kind = "reject" -> Throw("NetworkError", <<"Failed to fetch">>)
                    [] http.kind = "badjson" -> Throw("SyntaxError", <<"Unexpected token">>)
                    [] http.kind = "status" -> Return(<<>>)
                    [] http.data[1].status = "finished" ->
                         ExtractTextFromOCRResult(IF http.data[1].results # <<>>
                                                  THEN http.data[1].results[1]
                                                  ELSE http.data[1].rest)
                    [] http.data[1].status = "failed" ->
                         Throw("Error", <<"Mistral OCR job failed">>)
                    [] OTHER -> Return(<<>>)
    IN  IF http.kind = "json" /\ http.data[1].status = "finished" /\ thrown.kind = "return"
        THEN [next |-> "return", res |-> thrown]
        ELSE [next |-> "delay", res |-> thrown]

PollInit ==
    /\ op = "pollAsyncOCRResult"
    /\ pc = "poll"
    /\ opts \in [maxAttempts : {<<>>} \cup {<<n>> : n \in 0..MaxAttemptsBound}]
    /\ attempt = 0
    /\ apiKey = TRUE
    /\ input = <<"job">>
    /\ waits = <<>>
    /\ resp = <<>>
    /\ ret = <<>>
    /\ inflight = 0
    /\ nRequests = 0
    /\ payload = <<>>
    /\ delay = 0
    /\ lastError = <<>>
    /\ nPrimary = 0
    /\ nFallback = 0
    /\ last = <<>>
    /\ outcome = <<>>
    /\ cleaned = <<>>
    /\ nParse = 0
    /\ repaired = FALSE
    /\ calls = <<>>

pollRest == <<apiKey, opts, op, input, payload, delay, lastError, nPrimary, nFallback,
              last, outcome, parseVars, calls>>

\* lines 151-156: the loop test holds and the poll request is sent; response is a
\* constant of the loop body, new in every iteration
PollSend ==
    /\ pc = "poll"
    /\ PollLoopTest(opts, attempt)
    /\ pc' = "awaitPoll"
    /\ inflight' = inflight + 1
    /\ nRequests' = nRequests + 1
    /\ resp' = <<>>
    /\ UNCHANGED <<attempt, waits, ret, pollRest>>

\* lines 158-177: the poll request is answered
PollAnswer ==
    /\ pc = "awaitPoll"
    /\ \E http \in PollOutcomes :
         /\ resp' = <<http>>
         /\ IF PollOnResponse(http).next = "return"
            THEN ret' = <<PollOnResponse(http).res>> /\ pc' = "done"
            ELSE pc' = "delay" /\ UNCHANGED ret
    /\ inflight' = inflight - 1
    /\ UNCHANGED <<attempt, waits, nRequests, pollRest>>

\* lines 159, 174, 176 and attempt++: the delay elapses
PollDelayElapsed ==
    /\ pc = "delay"
    /\ waits' = Append(waits, PollDelay)
    /\ attempt' = attempt + 1
    /\ pc' = "poll"
    /\ UNCHANGED <<inflight, nRequests, resp, ret, pollRest>>

\* line 180: the loop is left
PollTimeout ==
    /\ pc = "poll"
    /\ ~PollLoopTest(opts, attempt)
    /\ ret' = <<Throw("Error", <<"Mistral OCR job timed out">>)>>
    /\ pc' = "done"
    /\ UNCHANGED <<attempt, waits, inflight, nRequests, resp, pollRest>>

PollNext == PollSend \/ PollAnswer \/ PollDelayElapsed \/ PollTimeout

PollSpec == PollInit /\ [][PollNext]_vars

\* every poll request is answered and every delay elapses
PollFairSpec == PollSpec /\ WF_vars(PollNext)

----------------------------------------------------------------------------
(* extractTextWithMistralOCR, src/src/services/edenResumeParserService.ts lines  *)
(* 90-143, with the polling of lines 148-181 it awaits.  opts.retryCount is the  *)
(* parameter of the recursive call; payload holds the upload requests sent.      *)

UploadStatuses == {"400", "401", "403", "429", "500"}

\* the body of an upload answer: a job id, or the OCR result itself
UploadBodies ==
    {[public_id |-> <<"job">>, rest |-> <<>>]}
    \cup {[public_id |-> <<>>, rest |-> r] : r \in OcrResults}

UploadOutcomes ==
    {[kind |-> "reject", status |-> "", data |-> <<>>],
     [kind |-> "badjson", status |-> "200", data |-> <<>>]}
    \cup {[kind |-> "status", status |-> st, data |-> <<>>] : st \in UploadStatuses}
    \cup {[kind |-> "json", status |-> "200", data |-> <<d>>] : d \in UploadBodies}

\* lines 109-117 and 123: the error thrown for a status that is not OK, <<>> where
\* the code retries first (line 119)
UploadStatusError(status, retryCount) ==
    IF status \in {"401", "403"}
    THEN <<Throw("Error", <<"EdenAI API authentication failed. Please check your API key.">>)>>
    ELSE IF status = "429"
    THEN <<Throw("Error", <<"EdenAI API rate limit exceeded. Please try again later.">>)>>
    ELSE IF status = "400"
    THEN <<Throw("Error", <<"Invalid file format. Please upload a PDF or DOCX file.">>)>>
    ELSE IF retryCount < MAX_RETRIES THEN <<>>
    ELSE <<Throw("Error", <<"Mistral OCR API failed: ", status>>)>>

\* lines 105-134: the try block from the answer of fetch on: the next step, and
\* what is returned or thrown inside the try block
UploadOnResponse(http, retryCount) ==
    CASE http.kind = "reject" ->
            [next |-> "catch", res |-> Throw("NetworkError", <<"Failed to fetch">>)]
      [] http.kind = "badjson" ->
            [next |-> "catch", res |-> Throw("SyntaxError", <<"Unexpected token">>)]
      [] http.kind = "status" ->
            IF UploadStatusError(http.status, retryCount) = <<>>
            THEN [next |-> "retry", res |-> Return(<<>>)]
            ELSE [next |-> "catch", res |-> UploadStatusError(http.status, retryCount)[1]]
      [] http.data[1].public_id # <<>> ->
            [next |-> "poll", res |-> Return(<<>>)]
      [] OTHER ->
            IF ExtractTextFromOCRResult(http.data[1].rest).kind = "return"
            THEN [next |-> "return", res |-> ExtractTextFromOCRResult(http.data[1].rest)]
            ELSE [next |-> "catch", res |-> ExtractTextFromOCRResult(http.data[1].rest)]

UploadInit ==
    /\ op = "extractTextWithMistralOCR"
    /\ pc = "upload"
    /\ opts = [maxAttempts |-> <<>>, retryCount |-> 0]
    /\ apiKey = TRUE
    /\ input = <<"file">>
    /\ payload = <<>>
    /\ attempt = 0
    /\ waits = <<>>
    /\ resp = <<>>
    /\ ret = <<>>
    /\ outcome = <<>>
    /\ inflight = 0
    /\ nRequests = 0
    /\ delay = 0
    /\ lastError = <<>>
    /\ nPrimary = 0
    /\ nFallback = 0
    /\ last = <<>>
    /\ cleaned = <<>>
    /\ nParse = 0
    /\ repaired = FALSE
    /\ calls = <<>>

uploadRest == <<apiKey, op, input, delay, lastError, nPrimary, nFallback, last,
                parseVars, calls>>

\* lines 93-103: the upload request is sent
UploadSend ==
    /\ op = "extractTextWithMistralOCR"
    /\ pc = "upload"
    /\ payload' = Append(payload, [url |-> "ocr_async", providers |-> "mistral",
                                   retryCount |-> opts.retryCount])
    /\ inflight' = inflight + 1
    /\ nRequests' = nRequests + 1
    /\ resp' = <<>>
    /\ pc' = "awaitUpload"
    /\ UNCHANGED <<opts, attempt, waits, ret, outcome, uploadRest>>

\* lines 135-141: the catch block: a delay and another upload, or the error is thrown
UploadCatch(e) ==
    IF opts.retryCount < MAX_RETRIES
    THEN pc' = "uploadDelay" /\ UNCHANGED outcome
    ELSE pc' = "settled" /\ outcome' = <<e>>

\* lines 105-141: the upload request is answered
UploadAnswer ==
    /\ pc = "awaitUpload"
    /\ \E http \in UploadOutcomes :
         LET r == UploadOnResponse(http, opts.retryCount) IN
         /\ resp' = <<http>>
         /\ CASE r.next = "poll" -> pc' = "poll" /\ UNCHANGED outcome
              [] r.next = "return" -> pc' = "settled" /\ outcome' = <<r.res>>
              [] r.next = "retry" -> pc' = "uploadDelay" /\ UNCHANGED outcome
              [] OTHER -> UploadCatch(r.res)
    /\ attempt' = 0
    /\ ret' = <<>>
    /\ inflight' = inflight - 1
    /\ UNCHANGED <<opts, waits, nRequests, payload, uploadRest>>

\* lines 120-121 and 138-139: the delay elapses and the function calls itself
UploadDelayElapsed ==
    /\ pc = "uploadDelay"
    /\ waits' = Append(waits, UploadDelay)
    /\ opts' = [opts EXCEPT !.retryCount = @ + 1]
    /\ pc' = "upload"
    /\ UNCHANGED <<attempt, resp, ret, outcome, inflight, nRequests, payload, uploadRest>>

\* lines 130 and 135-141: pollAsyncOCRResult has returned or thrown
UploadPolled ==
    /\ op = "extractTextWithMistralOCR"
    /\ pc = "done"
    /\ IF ret[1].kind = "return"
       THEN pc' = "settled" /\ outcome' = ret
       ELSE UploadCatch(ret[1])
    /\ resp' = <<>>
    /\ UNCHANGED <<opts, attempt, waits, ret, inflight, nRequests, payload, uploadRest>>

UploadNext ==
    \/ UploadSend
    \/ UploadAnswer
    \/ UploadDelayElapsed
    \/ UploadPolled
    \/ PollNext

UploadSpec == UploadInit /\ [][UploadNext]_vars

----------------------------------------------------------------------------
(* Vocabulary of the properties *)

Done == pc = "done"

\* the Exhausted state of the retry controller: the loop over the primary attempts is left
Exhausted == attempt > MaxRetriesOf(opts)

\* the latest generateText call was a primary attempt / the fallback call
LastIsPrimary == last # <<>> /\ ~last[1].fallback

LastIsFallback == last # <<>> /\ last[1].fallback

LastFailed == last # <<>> /\ last[1].res.kind = "throw"

LastSucceeded == last # <<>> /\ last[1].res.kind = "return"

\* the latest call with the identity of what it returned or threw
LastTagged == Tagged(last[1].res, last[1].at)

\* the provider given, or the default provider when none (undefined or '') is given
ConfiguredProvider ==
    IF opts.provider = <<>> \/ opts.provider[1] = <<>>
    THEN <<"openai", "/", "gpt-4o-mini">> ELSE opts.provider[1]

InPrimaryFamily == \E i \in 1..Len(ConfiguredProvider) : ConfiguredProvider[i] = "openai"

\* baseDelay * 2^(k-1) summed over k = 1..n
RECURSIVE BackoffSum(_)
BackoffSum(n) == IF n <= 0 THEN 0 ELSE 1000 * 2^(n - 1) + BackoffSum(n - 1)

----------------------------------------------------------------------------
(* C1: when the first primary dispatch succeeds, generateTextWithRetry has      *)
(* returned that dispatch's text after exactly one dispatch (one generateText   *)
(* call, one request, no fallback call) and without any backoff wait.           *)
C1_FirstAttemptSuccess ==
    (LastIsPrimary /\ LastSucceeded /\ last[1].at = 1) =>
        /\ Done
        /\ outcome = <<Tagged(last[1].res, 1)>>
        /\ outcome[1].res.kind = "return"
        /\ nPrimary = 1 /\ nFallback = 0 /\ nRequests = 1
        /\ waits = <<>> /\ SumSeq(waits) = 0

C1_Witness ==
    /\ Done /\ LastIsPrimary /\ LastSucceeded /\ last[1].at = 1
    /\ outcome[1].res.text = <<"hi">>

(* C2: for maxRetries >= 1, when the primary attempt number maxRetries succeeds  *)
(* (the earlier ones having failed), the text of that attempt is returned and    *)
(* the waits are 1000 * 2^(k-1) for k = 1..maxRetries-1, so that the total wait  *)
(* is their sum.                                                                 *)
C2_LastAttemptSuccess ==
    (MaxRetriesOf(opts) >= 1 /\ LastIsPrimary /\ LastSucceeded
        /\ last[1].at = MaxRetriesOf(opts)) =>
        /\ Done
        /\ outcome = <<Tagged(last[1].res, MaxRetriesOf(opts))>>
        /\ outcome[1].res.kind = "return"
        /\ nPrimary = MaxRetriesOf(opts)
        /\ Len(waits) = MaxRetriesOf(opts) - 1
        /\ \A k \in 1..Len(waits) : waits[k] = 1000 * 2^(k - 1)
        /\ SumSeq(waits) = BackoffSum(MaxRetriesOf(opts) - 1)

C2_Witness ==
    /\ Done /\ LastIsPrimary /\ LastSucceeded
    /\ MaxRetriesOf(opts) = 3 /\ last[1].at = 3
    /\ SumSeq(waits) = 3000

(* C3: once all primary attempts have failed and the provider given (or the      *)
(* default one) is in the fallback-eligible family, exactly one call is made to  *)
(* the fallback provider, and when that call succeeds its text is returned.      *)
C3_OneFallbackCall ==
    /\ nFallback <= 1
    /\ (Exhausted /\ InPrimaryFamily /\ pc # "loop") =>
          /\ nFallback = 1
          /\ nPrimary = MaxRetriesOf(opts)
          /\ (Done => LastIsFallback)
          /\ (Done /\ LastSucceeded) =>
                (outcome = <<LastTagged>> /\ outcome[1].res.kind = "return")

C3_Witness ==
    /\ Done /\ Exhausted /\ InPrimaryFamily /\ LastIsFallback /\ LastSucceeded
    /\ MaxRetriesOf(opts) >= 1
    /\ outcome[1].res.text = <<"yo">>

(* C4: when all primary attempts have failed and the fallback call fails too,    *)
(* the error thrown is the one of the last primary attempt (attempt maxRetries), *)
(* never the fallback's.                                                         *)
C4_FallbackFailureRaisesPrimaryError ==
    (Done /\ LastIsFallback /\ LastFailed) =>
        /\ outcome # <<>>
        /\ outcome[1].res.kind = "throw"
        /\ outcome[1].at # last[1].at
        /\ MaxRetriesOf(opts) >= 1 =>
              (outcome = lastError /\ outcome[1].at = MaxRetriesOf(opts))

C4_Witness ==
    /\ Done /\ LastIsFallback /\ LastFailed
    /\ MaxRetriesOf(opts) >= 2
    /\ last[1].res.cls = "EmptyResponseError"
    /\ outcome[1].res.cls = "TransportError"

(* C5: a call to the fallback provider is made only in the Exhausted state,      *)
(* after each of the maxRetries primary attempts has failed, and only if the     *)
(* provider contains 'openai'; a run that ends otherwise makes no fallback call. *)
C5_FallbackOnlyWhenExhaustedAndEligible ==
    /\ (nFallback > 0 \/ pc = "awaitFallback" \/ LastIsFallback) =>
          /\ Exhausted
          /\ InPrimaryFamily
          /\ nPrimary = MaxRetriesOf(opts)
          /\ MaxRetriesOf(opts) >= 1 =>
                (lastError # <<>> /\ lastError[1].at = MaxRetriesOf(opts)
                    /\ lastError[1].res.kind = "throw")
    /\ (Done /\ (~InPrimaryFamily \/ ~Exhausted)) => nFallback = 0

C5_Witness ==
    /\ pc = "awaitFallback" /\ nFallback = 1 /\ MaxRetriesOf(opts) >= 2
    /\ opts.provider = <<<<"azure", "openai", "/", "gpt-4o">>>>

(* C6: when all primary attempts have failed and the provider is not in the      *)
(* primary family, the error thrown is the one recorded by the last primary      *)
(* attempt (attempt maxRetries), not the one of an earlier attempt; lastError    *)
(* is always the error of the latest failed primary attempt.                     *)
C6_NoFallbackRaisesLastPrimaryError ==
    /\ (LastIsPrimary /\ LastFailed) => lastError = <<LastTagged>>
    /\ (Done /\ Exhausted /\ ~InPrimaryFamily /\ MaxRetriesOf(opts) >= 1) =>
          /\ nFallback = 0
          /\ LastIsPrimary /\ LastFailed
          /\ last[1].at = MaxRetriesOf(opts)
          /\ outcome = <<LastTagged>>

C6_Witness ==
    /\ Done /\ Exhausted /\ ~InPrimaryFamily /\ MaxRetriesOf(opts) >= 2
    /\ outcome[1].at = MaxRetriesOf(opts)
    /\ outcome[1].res.cls = "ProviderReportedError"

----------------------------------------------------------------------------
\* a failed primary attempt of one of the classes is retried: before attempt
\* maxRetries a wait and then another primary attempt follow, and after attempt
\* maxRetries the loop is left for the fallback step
RetriedClasses(classes) ==
    (LastIsPrimary /\ LastFailed /\ last[1].res.cls \in classes) =>
        IF last[1].at < MaxRetriesOf(opts)
        THEN /\ ~Done /\ outcome = <<>>
             /\ \/ pc = "wait" /\ attempt = last[1].at /\ nPrimary = last[1].at
                   /\ ENABLED BackoffElapsed
                \/ pc = "loop" /\ attempt = last[1].at + 1 /\ nPrimary = last[1].at
                   /\ ENABLED PrimaryCall
                \/ pc = "awaitPrimary" /\ attempt = last[1].at + 1
                   /\ nPrimary = last[1].at + 1
        ELSE /\ last[1].at = MaxRetriesOf(opts)
             /\ Exhausted
             /\ pc \in {"loop", "awaitFallback", "done"}
             /\ pc = "loop" => ENABLED LoopExit
             /\ InPrimaryFamily => (pc = "loop" \/ nFallback = 1)

(* C8 as stated: after a primary attempt has failed with NoProviderResponseError *)
(* no further primary attempt is made.                                           *)
C8_NoProviderResponseNotRetried ==
    (LastIsPrimary /\ LastFailed /\ last[1].res.cls = "NoProviderResponseError") =>
        (nPrimary = last[1].at /\ pc # "wait")

(* C8 amended: a primary attempt failing with NoProviderResponseError is retried *)
(* like any other failure: a wait and another attempt while the attempt number   *)
(* is below maxRetries, the fallback step after attempt maxRetries.              *)
C8_NoProviderResponseRetried == RetriedClasses({"NoProviderResponseError"})

C8_Witness ==
    /\ LastIsPrimary /\ LastFailed /\ last[1].res.cls = "NoProviderResponseError"
    /\ last[1].at = 1 /\ pc = "awaitPrimary" /\ nPrimary = 2

(* C9: a primary attempt failing with TransportError, EmptyResponseError or      *)
(* ProviderReportedError is retried: another primary attempt follows while the   *)
(* attempt number is below maxRetries, and the fallback step is reached after    *)
(* the failure of attempt maxRetries.                                            *)
C9_TransientFailuresRetried ==
    RetriedClasses({"TransportError", "EmptyResponseError", "ProviderReportedError"})

C9_Witness ==
    /\ LastIsPrimary /\ LastFailed /\ last[1].res.cls = "TransportError"
    /\ last[1].at = 2 /\ MaxRetriesOf(opts) = 2 /\ pc = "awaitFallback"
    /\ Len(waits) = 1

----------------------------------------------------------------------------
(* Vocabulary of the properties of one call *)

\* the response has an entry (a result object) under key k
HasEntry(data, k) == \E i \in 1..Len(data) : data[i].key = k /\ data[i].value # <<>>

EntryAt(data, k) == data[CHOOSE i \in 1..Len(data) : data[i].key = k].value[1]

\* the substring before the first '/', the whole identifier when it has none
BaseName(p) ==
    IF \E i \in 1..Len(p) : p[i] = "/"
    THEN SubSeq(p, 1, (CHOOSE i \in 1..Len(p) :
                          p[i] = "/" /\ \A j \in 1..(i - 1) : p[j] # "/") - 1)
    ELSE p

\* the entry at position i exposes generated text
ExposesText(data, i) ==
    /\ data[i].value # <<>>
    /\ data[i].value[1].generated_text \notin {<<>>, <<<<>>>>}

\* the result r of generateText comes from entry e and from no other entry
DecidedByEntry(r, e) ==
    /\ r.kind = "return" => e.generated_text = <<r.text>>
    /\ r.kind = "throw" => r.cls \in {"ProviderReportedError", "EmptyResponseError"}
    /\ r.cls = "ProviderReportedError" => (e.status = <<"fail">> \/ e.error # <<>>)
    /\ r.cls = "EmptyResponseError" =>
          /\ e.status # <<"fail">> /\ e.error = <<>>
          /\ e.generated_text \in {<<>>, <<<<>>>>, <<<<" ">>>>}
    /\ (e.status # <<"fail">> /\ e.error = <<>>
            /\ e.generated_text \in {<<<<"hi">>>>, <<<<"yo">>>>}) => r.kind = "return"

(* C7 as stated: no operation returns successfully with empty text; an empty     *)
(* result is a failure of generateText, chat and generateTextWithRetry alike.    *)
C7_NeverReturnsEmptyText ==
    /\ (ret # <<>> /\ ret[1].kind = "return") => ret[1].text # <<>>
    /\ (outcome # <<>> /\ outcome[1].res.kind = "return") => outcome[1].res.text # <<>>

(* C10: generateText resolves the entry in strict precedence: the entry under    *)
(* the exact requested key when the response has one; otherwise the entry under  *)
(* the base name when it has one; otherwise the first key in response order      *)
(* whose entry exposes generated text; with none of these the call fails with    *)
(* NoProviderResponseError.  No other entry decides the result.                  *)
C10_ExtractionPrecedence ==
    (pc = "done" /\ op = "generateText" /\ resp # <<>> /\ resp[1].kind = "json") =>
        LET p == ProviderOf(opts)
            data == resp[1].data
            r == ret[1]
        IN  IF HasEntry(data, p)
            THEN DecidedByEntry(r, EntryAt(data, p))
            ELSE IF HasEntry(data, BaseName(p))
            THEN DecidedByEntry(r, EntryAt(data, BaseName(p)))
            ELSE IF \E i \in 1..Len(data) : ExposesText(data, i)
            THEN LET first == CHOOSE i \in 1..Len(data) :
                                 /\ ExposesText(data, i)
                                 /\ \A j \in 1..(i - 1) : ~ExposesText(data, j)
                 IN  r.kind = "return" /\ <<r.text>> = data[first].value[1].generated_text
            ELSE r.kind = "throw" /\ r.cls = "NoProviderResponseError"

\* the base-name entry decides although another key, listed first, has text
C10_Witness ==
    /\ pc = "done" /\ op = "generateText" /\ resp # <<>> /\ resp[1].kind = "json"
    /\ ProviderOf(opts) = <<"openai", "/", "gpt-4o-mini">>
    /\ Len(resp[1].data) = 2
    /\ resp[1].data[1].key = <<"google">>
    /\ ExposesText(resp[1].data, 1)
    /\ resp[1].data[1].value[1].generated_text = <<<<"yo">>>>
    /\ resp[1].data[2].key = <<"openai">>
    /\ ret[1] = Return(<<"hi">>)

----------------------------------------------------------------------------
\* generateText has been answered with a JSON body
GenerateTextAnswered ==
    pc = "done" /\ op = "generateText" /\ resp # <<>> /\ resp[1].kind = "json"

\* the matched entry: the one under the exact key, else the one under the base name
MatchedEntry(p, data) ==
    IF HasEntry(data, p) THEN <<EntryAt(data, p)>>
    ELSE IF HasEntry(data, BaseName(p)) THEN <<EntryAt(data, BaseName(p))>>
    ELSE <<>>

Matched == MatchedEntry(ProviderOf(opts), resp[1].data)

\* generated_text is absent, empty or whitespace-only
BlankText(e) == e.generated_text \in {<<>>, <<<<>>>>, <<<<" ">>>>}

C11_WitnessStatusOnly ==
    /\ GenerateTextAnswered /\ Matched # <<>> /\ Matched[1].status = <<"fail">>
    /\ Matched[1].error = <<>>
    /\ Matched[1].generated_text = <<<<"hi">>>>

(* C12 as stated: generateText fails with NoProviderResponseError exactly when   *)
(* no key of the response, the exact and the base-name key included, yields an   *)
(* entry with generated text.                                                    *)
C12_NoProviderResponseIffNoText ==
    GenerateTextAnswered =>
        (ret[1].cls = "NoProviderResponseError"
            <=> ~\E i \in 1..Len(resp[1].data) : ExposesText(resp[1].data, i))

(* C12 amended: generateText fails with NoProviderResponseError exactly when the *)
(* response has no entry under the exact key nor under the base-name key and no  *)
(* key of the response exposes generated text; it never fails this way when     *)
(* some key exposes generated text.                                              *)
C12_NoProviderResponseIffNoEntryNoText ==
    GenerateTextAnswered =>
        /\ ret[1].cls = "NoProviderResponseError"
              <=> /\ Matched = <<>>
                  /\ ~\E i \in 1..Len(resp[1].data) : ExposesText(resp[1].data, i)
        /\ (\E i \in 1..Len(resp[1].data) : ExposesText(resp[1].data, i)) =>
              ret[1].cls # "NoProviderResponseError"

C12_Witness ==
    /\ GenerateTextAnswered /\ ret[1].cls = "NoProviderResponseError"
    /\ Len(resp[1].data) = 2
    /\ resp[1].data[1].value # <<>>
    /\ ProviderOf(opts) = <<"google", "/", "gemini-1.5-flash">>

C18_NonOkStatusIsTransportError ==
    (pc = "done" /\ op \in {"generateText", "chat"} /\ resp # <<>>
        /\ resp[1].kind = "status") =>
        /\ ret[1].kind = "throw"
        /\ ret[1].cls = "TransportError"
        /\ ret[1].text = <<>>
        /\ \E i \in 1..Len(ret[1].msg) : ret[1].msg[i] = resp[1].status
        /\ resp[1].body # <<>>
        /\ \E i \in 1..Len(ret[1].msg) :
              SubSeq(ret[1].msg, i, Len(ret[1].msg)) = resp[1].body

C18_Witness ==
    /\ pc = "done" /\ op = "chat" /\ resp # <<>> /\ resp[1].kind = "status"
    /\ resp[1].status = "429"
    /\ resp[1].data # <<>>
    /\ ret[1].msg = <<"EdenAI API error: ", "429", " - ", "rate limited">>

----------------------------------------------------------------------------
\* the positions before the final message that hold no system message
TurnPositionsBeforeFinal(msgs) == {i \in 1..(Len(msgs) - 1) : msgs[i].role # "system"}

\* the k-th of these positions
KthTurnPosition(msgs, k) ==
    CHOOSE i \in TurnPositionsBeforeFinal(msgs) :
        Cardinality({j \in TurnPositionsBeforeFinal(msgs) : j <= i}) = k

(* C17 as stated: for every message sequence given to chat (with a final turn,   *)
(* and a leading system message that has content), the payload sent              *)
(* carries the leading system message's content in chatbot_global_action, all    *)
(* turns before the final turn, without the system messages and in their         *)
(* original order, in previous_history, and the final turn's content as text.    *)
C17_ChatPayloadFromMessages ==
    (op = "chat" /\ apiKey /\ pc # "call" /\ input # <<>>) =>
        /\ payload # <<>>
        /\ (input[1].role = "system" /\ input[1].content # <<>>) =>
              payload[1].chatbot_global_action = input[1].content
        /\ payload[1].text = input[Len(input)].content
        /\ Len(payload[1].previous_history)
              = Cardinality(TurnPositionsBeforeFinal(input))
        /\ \A k \in 1..Len(payload[1].previous_history) :
              payload[1].previous_history[k]
                  = [role |-> input[KthTurnPosition(input, k)].role,
                     message |-> input[KthTurnPosition(input, k)].content]

----------------------------------------------------------------------------
\* parseJSONResponse has been called and has left the blank check behind
ParseEntered == op = "parseJSONResponse" /\ pc # "call"

ParseDone == op = "parseJSONResponse" /\ pc = "done"

\* the text holds nothing but white space
WhitespaceOnly(t) == \A i \in 1..Len(t) : t[i] \in {" ", "\n"}

EmptyInputError == Throw("EmptyInputError", <<"Empty response from AI - cannot parse JSON">>)

MalformedJsonError == Throw("MalformedJsonError", <<"Invalid JSON response from AI">>)

(* C14: on input that is empty or whitespace-only, parseJSONResponse fails with  *)
(* EmptyInputError before any fence stripping, span location or parse attempt:   *)
(* the call ends at once, no text is cleaned and nothing is parsed or repaired.  *)
C14_BlankInputIsEmptyInputError ==
    (ParseEntered /\ WhitespaceOnly(input)) =>
        /\ pc = "done"
        /\ ret = <<EmptyInputError>>
        /\ nParse = 0
        /\ cleaned = <<>>
        /\ ~repaired

C14_Witness ==
    /\ ParseDone
    /\ input = <<" ", " ">>
    /\ ret = <<EmptyInputError>>
    /\ nParse = 0

(* C15: parseJSONResponse makes at most two parse attempts per call: the first   *)
(* on the located span and, only if it fails, one repair pass followed by one    *)
(* second parse. If the first parse succeeds its value is returned and the       *)
(* repair is never applied; if both fail the call fails with MalformedJsonError  *)
(* and returns no value.                                                         *)
C15_AtMostTwoParseAttempts ==
    ParseEntered =>
        /\ nParse <= 2
        /\ repaired => (nParse = 2 /\ ~JsonParse(cleaned).ok)
        /\ nParse = 2 => (repaired /\ ~JsonParse(cleaned).ok)
        /\ (pc = "done" /\ nParse >= 1 /\ JsonParse(cleaned).ok) =>
              /\ nParse = 1
              /\ ~repaired
              /\ ret = <<Return(JsonParse(cleaned).val)>>
        /\ (pc = "done" /\ nParse >= 1 /\ ~JsonParse(cleaned).ok
                /\ ~JsonParse(RepairTrailingCommas(cleaned)).ok) =>
              ret = <<MalformedJsonError>>

C15_Witness ==
    /\ ParseDone
    /\ nParse = 2
    /\ repaired
    /\ cleaned = <<"[", ",", ",", "]">>
    /\ ret = <<MalformedJsonError>>

C15_WitnessFirstParse ==
    /\ ParseDone
    /\ nParse = 1
    /\ ~repaired
    /\ input = <<"1", "[", "1", "]">>
    /\ ret = <<Return(<<"[", "1", "]">>)>>

\* the text is a document between code fences; the document
IsFenced(t) ==
    \E tag \in {<<>>, <<"json">>, <<"JSON">>} :
        /\ Len(t) >= Len(tag) + 4
        /\ SubSeq(t, 1, Len(tag) + 2) = <<FENCE>> \o tag \o <<"\n">>
        /\ SubSeq(t, Len(t) - 1, Len(t)) = <<"\n", FENCE>>

FencedDocument(t) ==
    LET n == IF t[2] = "\n" THEN 2 ELSE 3 IN SubSeq(t, n + 1, Len(t) - 2)

\* position i holds a comma that is followed, white space apart, by a closing bracket
TrailingCommaAt(d, i) ==
    /\ d[i] = ","
    /\ \E j \in (i + 1)..Len(d) :
          /\ d[j] \in {"}", "]"}
          /\ \A k \in (i + 1)..(j - 1) : d[k] \in {" ", "\n"}

DropAt(d, i) == SubSeq(d, 1, i - 1) \o SubSeq(d, i + 1, Len(d))

----------------------------------------------------------------------------
\* generateTextWithRetry run alone with options o against the answers h, from the
\* loop test on: the number of generateText calls, the waits and the result
RECURSIVE AloneFrom(_, _, _, _)
AloneFrom(key, o, h, f) ==
    LET n == f.nCalls + 1 IN
    IF f.attempt <= MaxRetriesOf(o)
    THEN LET r == IF key THEN GenerateTextOnResponse(ProviderOf(o), Head(h))
                  ELSE ConfigFailure
         IN  IF r.kind = "return"
             THEN [nCalls |-> n, waits |-> f.waits, result |-> Tagged(r, n)]
             ELSE AloneFrom(key, o, IF key THEN Tail(h) ELSE h,
                     [attempt |-> f.attempt + 1,
                      delay |-> IF f.attempt < MaxRetriesOf(o) THEN f.delay * 2 ELSE f.delay,
                      waits |-> IF f.attempt < MaxRetriesOf(o)
                                THEN Append(f.waits, f.delay) ELSE f.waits,
                      lastError |-> <<Tagged(r, n)>>,
                      nCalls |-> n])
    ELSE LET thrown == IF f.lastError # <<>> THEN f.lastError[1] ELSE GenericFailure IN
         IF ~FallbackEligible(o)
         THEN [nCalls |-> f.nCalls, waits |-> f.waits, result |-> thrown]
         ELSE LET r == IF key THEN GenerateTextOnResponse(FALLBACK_PROVIDER, Head(h))
                       ELSE ConfigFailure
              IN  [nCalls |-> n, waits |-> f.waits,
                   result |-> IF r.kind = "return" THEN Tagged(r, n) ELSE thrown]

Alone(key, o, h) ==
    AloneFrom(key, o, h,
        [attempt |-> 1, delay |-> BaseDelay, waits |-> <<>>, lastError |-> <<>>, nCalls |-> 0])

(* C19: concurrent invocations of generateTextWithRetry do not interfere: for    *)
(* every interleaving, the number of dispatches, the waits and the result of an  *)
(* invocation are those of the invocation run alone with the same options        *)
(* against the same provider responses.                                          *)
C19_InvocationsDoNotInterfere ==
    op = "concurrent" =>
        \A i \in Invocations :
            calls[i].pc = "done" =>
                [nCalls |-> calls[i].nCalls, waits |-> calls[i].waits,
                 result |-> calls[i].outcome[1]]
                    = Alone(apiKey, calls[i].opts, calls[i].hist)

\* invocation 2 has waited once and ended with an error while invocation 1, started
\* with the same options, has waited once and is waiting for its next answer
C19_Witness ==
    /\ op = "concurrent"
    /\ calls[2].pc = "done"
    /\ calls[2].waits = <<BaseDelay>>
    /\ calls[2].outcome[1].res.kind = "throw"
    /\ calls[1].pc = "awaitPrimary"
    /\ calls[1].waits = <<BaseDelay>>
    /\ calls[1].opts = calls[2].opts

----------------------------------------------------------------------------
\* the invocation of generateTextWithRetry can take no further step
Halted == ~ENABLED Next

(* C21: a success of primary attempt k (1 <= k <= maxRetries) ends the           *)
(* invocation at once: exactly k primary calls have been made, no wait follows   *)
(* the success (the waits are the k-1 before it), no fallback call is made and   *)
(* nothing more happens.                                                         *)
C21_SuccessEndsInvocation ==
    (LastIsPrimary /\ LastSucceeded) =>
        /\ Done
        /\ Halted
        /\ last[1].at \in 1..MaxRetriesOf(opts)
        /\ nPrimary = last[1].at
        /\ Len(waits) = last[1].at - 1
        /\ nFallback = 0
        /\ inflight = 0
        /\ outcome = <<LastTagged>>

C21_Witness ==
    /\ Done /\ LastIsPrimary /\ LastSucceeded
    /\ last[1].at = 2 /\ MaxRetriesOf(opts) = 3
    /\ waits = <<BaseDelay>>
    /\ nPrimary = 2

(* C22: the wait after a failed attempt k < maxRetries is exactly                *)
(* baseDelay * 2^(k-1) ms, and no wait is performed after the failure of the     *)
(* final attempt k = maxRetries, before the fallback call or the raise.          *)
C22_BackoffSchedule ==
    /\ \A k \in 1..Len(waits) : k < MaxRetriesOf(opts) /\ waits[k] = BaseDelay * 2^(k - 1)
    /\ pc = "wait" =>
          /\ LastIsPrimary /\ LastFailed
          /\ last[1].at < MaxRetriesOf(opts)
          /\ Len(waits) = last[1].at - 1
          /\ delay = BaseDelay * 2^(last[1].at - 1)
    /\ (LastIsPrimary /\ LastFailed /\ last[1].at < MaxRetriesOf(opts) /\ pc # "wait") =>
          Len(waits) >= last[1].at
    /\ ((LastIsPrimary /\ LastFailed /\ last[1].at = MaxRetriesOf(opts)) \/ LastIsFallback) =>
          /\ pc # "wait"
          /\ Len(waits) = (IF MaxRetriesOf(opts) >= 1 THEN MaxRetriesOf(opts) - 1 ELSE 0)

C22_Witness ==
    /\ Done /\ LastIsPrimary /\ LastFailed
    /\ MaxRetriesOf(opts) = 3 /\ last[1].at = 3
    /\ waits = <<1000, 2000>>

(* C23: at most one request of an invocation is in flight at any time: attempt   *)
(* k+1 is dispatched only after attempt k has completed with a failure and the   *)
(* wait following it has elapsed, and the fallback only after the last primary   *)
(* attempt has completed.                                                        *)
C23_OneRequestInFlight ==
    /\ inflight \in 0..1
    /\ inflight = 1 <=> pc \in {"awaitPrimary", "awaitFallback"}
    /\ (pc = "awaitPrimary" /\ nPrimary >= 2) =>
          /\ LastIsPrimary /\ LastFailed
          /\ last[1].at = nPrimary - 1
          /\ lastError = <<LastTagged>>
          /\ Len(waits) = nPrimary - 1
    /\ (pc = "awaitFallback" /\ MaxRetriesOf(opts) >= 1) =>
          /\ LastIsPrimary /\ LastFailed
          /\ last[1].at = MaxRetriesOf(opts)
          /\ nPrimary = MaxRetriesOf(opts)

C23_Witness ==
    /\ pc = "awaitPrimary" /\ nPrimary = 3 /\ inflight = 1
    /\ waits = <<1000, 2000>>
    /\ last[1].at = 2

----------------------------------------------------------------------------
(* C24: when every dispatch and every wait completes, each invocation of         *)
(* generateTextWithRetry eventually ends, with a text or an error, having made   *)
(* at most maxRetries primary calls and at most one fallback call.               *)
C24_Terminates ==
    /\ <>(Done /\ outcome # <<>> /\ outcome[1].res.kind \in {"return", "throw"})
    /\ [](nPrimary <= MaxRetriesOf(opts) /\ nFallback <= 1)

C24_Witness ==
    /\ Done /\ outcome # <<>> /\ outcome[1].res.kind = "throw"
    /\ nPrimary = 3 /\ nFallback = 1 /\ MaxRetriesOf(opts) = 3
    /\ nRequests = 4

(* C27: with maxRetries = 0, generateTextWithRetry makes no primary call and no  *)
(* wait, and whenever the invocation fails the error raised is the generic       *)
(* 'Failed to generate text after retries' error, no primary error having been   *)
(* recorded.                                                                     *)
C27_ZeroRetries ==
    (opts.maxRetries = <<0>>) =>
        /\ nPrimary = 0
        /\ waits = <<>>
        /\ pc \notin {"awaitPrimary", "wait"}
        /\ lastError = <<>>
        /\ (Done /\ outcome[1].res.kind = "throw") =>
              /\ outcome = <<GenericFailure>>
              /\ outcome[1].res.msg = <<"Failed to generate text after retries">>

C27_Witness ==
    /\ opts.maxRetries = <<0>>
    /\ Done /\ LastIsFallback /\ LastFailed
    /\ nRequests = 1
    /\ outcome[1].res.cls = "GenericError"

----------------------------------------------------------------------------
\* chat has been answered with a JSON body
ChatAnswered == pc = "done" /\ op = "chat" /\ resp # <<>> /\ resp[1].kind = "json"

(* C25 as stated: chat and generateText apply the same extraction: for every     *)
(* provider response and requested provider key, chat yields what generateText   *)
(* yields, the same text or a failure of the same class (ProviderReportedError   *)
(* on a failure status, EmptyResponseError on empty text,                        *)
(* NoProviderResponseError when no key yields text).                             *)
C25_ChatExtractsLikeGenerateText ==
    ChatAnswered =>
        /\ ret[1].kind = GenerateTextOnResponse(ProviderOf(opts), resp[1]).kind
        /\ ret[1].text = GenerateTextOnResponse(ProviderOf(opts), resp[1]).text
        /\ ret[1].cls = GenerateTextOnResponse(ProviderOf(opts), resp[1]).cls
        /\ (Matched # <<>> /\ Matched[1].status = <<"fail">>) =>
              ret[1].cls = "ProviderReportedError"
        /\ (Matched # <<>> /\ Matched[1].status = <<>> /\ Matched[1].error = <<>>
                /\ BlankText(Matched[1])) =>
              ret[1].cls = "EmptyResponseError"

----------------------------------------------------------------------------
(* C28: when the API key is not configured, no request is ever sent by           *)
(* generateText, chat or generateTextWithRetry: every generateText or chat call, *)
(* on every attempt and in the fallback step, fails with the configuration       *)
(* error before a request is sent.                                               *)
C28_NoRequestWithoutKey ==
    ~apiKey =>
        /\ nRequests = 0
        /\ inflight = 0
        /\ payload = <<>>
        /\ resp = <<>>
        /\ pc \notin {"await", "awaitPrimary", "awaitFallback"}
        /\ ret # <<>> => ret = <<ConfigFailure>>
        /\ last # <<>> => last[1].res = ConfigFailure
        /\ lastError # <<>> => lastError[1].res = ConfigFailure
        /\ (op = "generateTextWithRetry" /\ pc = "done") =>
              /\ last # <<>> \/ (MaxRetriesOf(opts) = 0 /\ ~InPrimaryFamily)
              /\ outcome[1].res.kind = "throw"

C28_Witness ==
    /\ ~apiKey
    /\ op = "generateTextWithRetry" /\ pc = "done"
    /\ nPrimary = 3 /\ nFallback = 1
    /\ LastIsFallback /\ last[1].res = ConfigFailure
    /\ outcome[1].res = ConfigFailure /\ outcome[1].at = 3
    /\ nRequests = 0

C28_WitnessChat ==
    ~apiKey /\ op = "chat" /\ pc = "done" /\ ret = <<ConfigFailure>> /\ nRequests = 0

----------------------------------------------------------------------------
ModerationDone == op = "moderateText" /\ pc = "done"

\* the call took a failure path: no key, a rejected request, a status that is not
\* OK, a body that is not JSON, or a body whose items cannot be iterated
ModerationFailed ==
    \/ ~apiKey
    \/ resp # <<>> /\ resp[1].kind \in {"reject", "status", "badjson"}
    \/ resp # <<>> /\ resp[1].kind = "json" /\ resp[1].data[1].openai # <<>>
          /\ resp[1].data[1].openai[1].items.kind = "scalar"

(* C26: moderateText never raises and fails open: on every failure path (API key *)
(* missing, HTTP status not OK, request or response parsing throws) it returns   *)
(* isSafe = true with no flagged categories and confidence 0.                    *)
C26_ModerationFailsOpen ==
    ModerationDone =>
        /\ ret # <<>>
        /\ ret[1].kind = "return"
        /\ ModerationFailed =>
              /\ ret[1].text.isSafe
              /\ ret[1].text.flaggedCategories = <<>>
              /\ ret[1].text.confidence = 0

C26_Witness ==
    /\ ModerationDone
    /\ apiKey
    /\ resp # <<>> /\ resp[1].kind = "badjson"
    /\ Len(input) = 10
    /\ ret[1].kind = "return" /\ ret[1].text.isSafe /\ ret[1].text.confidence = 0

----------------------------------------------------------------------------
PollDone == op = "pollAsyncOCRResult" /\ pc = "done"

\* the latest poll answer reports the job as failed
PollReportedFailed ==
    /\ op = "pollAsyncOCRResult"
    /\ resp # <<>> /\ resp[1].kind = "json" /\ resp[1].data[1].status = "failed"

PollTimedOut == Throw("Error", <<"Mistral OCR job timed out">>)

(* C29 as stated: when a poll response reports status 'failed', polling stops:   *)
(* no further poll request is sent and the call fails with                       *)
(* 'Mistral OCR job failed'.                                                     *)
C29_FailedJobStopsPolling ==
    PollReportedFailed =>
        /\ pc = "done"
        /\ ret = <<Throw("Error", <<"Mistral OCR job failed">>)>>

(* C30: for every sequence of poll responses, pollAsyncOCRResult sends at most   *)
(* maxAttempts poll requests and then terminates, failing with                   *)
(* 'Mistral OCR job timed out' if no poll produced text.                         *)
C30_PollingTerminates ==
    /\ <>PollDone
    /\ [](nRequests <= MaxAttemptsOf(opts) /\ inflight \in 0..1)
    /\ [](PollDone =>
            /\ ret # <<>>
            /\ ret[1].kind = "return" =>
                  (resp[1].kind = "json" /\ resp[1].data[1].status = "finished"
                      /\ Len(ret[1].text) > MinOcrLength)
            /\ ret[1].kind = "throw" =>
                  (ret = <<PollTimedOut>> /\ nRequests = MaxAttemptsOf(opts)
                      /\ Len(waits) = MaxAttemptsOf(opts)))

C30_Witness ==
    /\ PollDone
    /\ opts.maxAttempts = <<>>
    /\ nRequests = DefaultMaxAttempts
    /\ ret = <<PollTimedOut>>
    /\ PollReportedFailed

----------------------------------------------------------------------------
\* the positions of the user and assistant turns of a message sequence
NonSystemPositions(msgs) == {i \in 1..Len(msgs) : msgs[i].role \in {"user", "assistant"}}

\* the k-th of these positions
KthNonSystemPosition(msgs, k) ==
    CHOOSE i \in NonSystemPositions(msgs) :
        Cardinality({j \in NonSystemPositions(msgs) : j <= i}) = k

NumTurns(msgs) == Cardinality(NonSystemPositions(msgs))

(* C33 as stated: for every non-empty message sequence given to chat, each       *)
(* non-system message of the input is sent exactly once, the last of them as the *)
(* text field and the ones before it as the elements of previous_history; no     *)
(* user or assistant turn is dropped or duplicated, wherever the system messages *)
(* are, the final position included.                                             *)
C33_EveryTurnSentOnce ==
    (op = "chat" /\ apiKey /\ pc # "call" /\ input # <<>> /\ NumTurns(input) >= 1) =>
        /\ payload # <<>>
        /\ Len(payload[1].previous_history) = NumTurns(input) - 1
        /\ \A k \in 1..(NumTurns(input) - 1) :
              /\ k <= Len(payload[1].previous_history)
              /\ payload[1].previous_history[k].role
                    = input[KthNonSystemPosition(input, k)].role
              /\ payload[1].previous_history[k].message
                    = input[KthNonSystemPosition(input, k)].content
        /\ payload[1].text = input[KthNonSystemPosition(input, NumTurns(input))].content

----------------------------------------------------------------------------
\* the requests sent to the spell-check endpoint, as positions in the order of sending
SpellCheckRequests == {i \in 1..Len(payload) : payload[i].url = "spell_check"}

ModerationCompleted == last # <<>> /\ pc \notin {"call", "awaitModeration"}

(* C32: in processResumeText the spell-check request is issued only after        *)
(* moderation has completed and only if moderation reported the text safe; when  *)
(* the text is unsafe no spell-check call is made, processedText is the          *)
(* unmodified input and isApproved is false, so that isApproved always equals    *)
(* moderation.isSafe.                                                            *)
C32_SpellCheckOnlyWhenSafe ==
    op = "processResumeText" =>
        /\ (SpellCheckRequests # {} \/ pc = "awaitSpellCheck") =>
              /\ ModerationCompleted
              /\ last[1].isSafe
              /\ \A i \in SpellCheckRequests : i = Len(payload)
              /\ Cardinality(SpellCheckRequests) = 1
        /\ inflight \in 0..1
        /\ pc = "done" =>
              /\ ret[1].moderation = last[1]
              /\ ret[1].isApproved = ret[1].moderation.isSafe
              /\ ~ret[1].moderation.isSafe =>
                    /\ SpellCheckRequests = {}
                    /\ ret[1].processedText = input
                    /\ ~ret[1].isApproved
                    /\ ret[1].spellCheck = SpellUnchanged(input)

C32_Witness ==
    /\ op = "processResumeText" /\ pc = "done"
    /\ ~ret[1].moderation.isSafe
    /\ ret[1].moderation.flaggedCategories = <<<<"hate">>>>
    /\ nRequests = 1
    /\ ~ret[1].isApproved
    /\ ret[1].processedText = input

C32_WitnessSafe ==
    /\ op = "processResumeText" /\ pc = "done"
    /\ ret[1].isApproved
    /\ nRequests = 2
    /\ ret[1].spellCheck.hasCorrections
    /\ ret[1].processedText # input

----------------------------------------------------------------------------
\* the upload has been answered with one of the statuses that have an error of their own
UploadRefused ==
    /\ op = "extractTextWithMistralOCR"
    /\ pc \in {"uploadDelay", "settled"}
    /\ resp # <<>> /\ resp[1].kind = "status"
    /\ resp[1].status \in {"400", "401", "403", "429"}

(* C31 as stated: an upload answered with HTTP 400, 401, 403 or 429 is not       *)
(* retried: the error of that status is raised after that single request; only   *)
(* other failures are retried, up to MAX_RETRIES = 2 more times.                 *)
C31_RefusedUploadNotRetried ==
    /\ UploadRefused =>
          /\ pc = "settled"
          /\ outcome = UploadStatusError(resp[1].status, opts.retryCount)
    /\ op = "extractTextWithMistralOCR" => Len(payload) <= MAX_RETRIES + 1

====
